---- MODULE Spec2Model ----
(***************************************************************************)
(* Model of the ratatui-md renderer (src/ratatui-md/src/renderer.rs):      *)
(* the word-wrap algorithm wrap_line and the event-driven RendererState.   *)
(*                                                                         *)
(* Text is a sequence of one-character strings.  The alphabet holds a      *)
(* narrow letter "a", a second narrow letter "b", the blank " " and "W",   *)
(* which stands for a double-width (East-Asian wide) glyph.                *)
(***************************************************************************)
EXTENDS Integers, Sequences, FiniteSets, TLC

VARIABLES
    spans,        \* wrap_line parameter: the runs of the line to wrap
    max_width,    \* wrap_line parameter
    indent,       \* wrap_line parameter
    wrap,         \* wrap_line's locals: pc, rest (the `for` iterator),
                  \* remaining, style, current_line, current_width, result
    theme,        \* render parameter: the Theme
    options,      \* render parameter: the RenderOptions
    state,        \* render's RendererState
    open,         \* the parser's stack of open blocks and spans
    events,       \* the events the parser has delivered so far
    phase,        \* render: "parse", "parsed" (parse has returned), "done"
    view          \* the MarkdownView of the application, None without one

vars == <<spans, max_width, indent, wrap, theme, options, state, open, events,
          phase, view>>

----------------------------------------------------------------------------
(* Bounds of the model. *)
MaxChars == 3     \* total characters of a wrap_line input
MaxRuns == 2      \* runs of a wrap_line input
MaxWidth == 3     \* largest max_width
MaxIndent == 2    \* largest indent
MaxLines == 8     \* cap on the lines wrap_line may emit in the model
MaxDocEvents == 8 \* events of a document
MaxAnyEvents == 2 \* events of an arbitrary sequence
MaxLevel == 3     \* heading levels of the documents

----------------------------------------------------------------------------
(* Characters and strings. *)
Chars == {"a", " ", "W"}

None == <<>>
Some(x) == <<x>>

Max(S) == CHOOSE x \in S : \A y \in S : y <= x

\* char::is_whitespace
IsWhitespace(c) == c = " "

\* UnicodeWidthChar::width(c).unwrap_or(1): columns of one character
CharWidth(c) == IF c = "W" THEN 2 ELSE 1

RECURSIVE Width(_)
\* UnicodeWidthStr::width: display width of a string
Width(s) == IF s = <<>> THEN 0 ELSE CharWidth(Head(s)) + Width(Tail(s))

RECURSIVE TrimStart(_)
\* str::trim_start
TrimStart(s) ==
    IF s # <<>> /\ IsWhitespace(Head(s)) THEN TrimStart(Tail(s)) ELSE s

\* " ".repeat(n)
Repeat(c, n) == [i \in 1..n |-> c]

----------------------------------------------------------------------------
(* Styles (ratatui::style::Style) and runs (ratatui::txt::Span). *)

\* A Style: optional foreground, optional background, added modifiers.
MkStyle(fg, bg, add) == [fg |-> fg, bg |-> bg, add_modifier |-> add]

\* Style::default(): nothing set
StyleDefault == MkStyle(None, None, {})

\* Span::styled(content, style)
Styled(content, style) == [content |-> content, style |-> style]

\* Span::raw(content)
Raw(content) == Styled(content, StyleDefault)

RECURSIVE LineText(_)
\* the text of a line: the concatenation of the contents of its runs
LineText(line) ==
    IF line = <<>> THEN <<>> ELSE Head(line).content \o LineText(Tail(line))

\* display width of a line
LineWidth(line) == Width(LineText(line))

----------------------------------------------------------------------------
(* wrap_line: the search for the wrap point (renderer.rs 212-241). *)

RECURSIVE WrapAtFrom(_, _, _, _)
WrapAtFrom(txt, available, i, width_so_far) ==
    IF i > Len(txt) THEN i - 1
    ELSE IF width_so_far + CharWidth(txt[i]) > available THEN i - 1
    ELSE WrapAtFrom(txt, available, i + 1, width_so_far + CharWidth(txt[i]))

\* wrap_at: offset just after the last character that fits in `available`
WrapAt(txt, available) == WrapAtFrom(txt, available, 1, 0)

\* last_space: offset (from 0) of the last blank among the characters that fit
LastSpace(txt, available) ==
    LET fit == {i \in 1..WrapAt(txt, available) : IsWhitespace(txt[i])}
    IN  IF fit = {} THEN None ELSE Some(Max(fit) - 1)

\* a slip: a text with no blank in budget is never broken
BreakAtKeepsToken(txt, available) ==
    LET wrap_at == WrapAt(txt, available)
        last_space == LastSpace(txt, available)
    IN  IF last_space # None
        THEN IF last_space[1] > 0 THEN last_space[1] ELSE wrap_at
        ELSE Len(txt)

\* break_at: prefer the last blank, then the last character that fits, then
\* one forced character
BreakAt(txt, available) ==
    LET wrap_at == WrapAt(txt, available)
        last_space == LastSpace(txt, available)
    IN  IF last_space # None
        THEN IF last_space[1] > 0 THEN last_space[1] ELSE wrap_at
        ELSE IF wrap_at > 0 THEN wrap_at
        ELSE 1

\* a slip: the budget of a fresh line, whatever the line already holds
AvailableOfEmptyLine(width, cur) == width

\* max_width.saturating_sub(current_width)
Available(width, cur) == IF width >= cur THEN width - cur ELSE 0

\* current_width + span_width <= max_width
Fits(txt, width, cur) == cur + Width(txt) <= width

----------------------------------------------------------------------------
(* wrap_line: one step of its loops, as a function of its locals w. *)

\* locals after `let mut result ...; let indent_str ...` (180-183)
WrapLocals(sp) ==
    [pc |-> "for", rest |-> sp, remaining |-> <<>>, style |-> StyleDefault,
     current_line |-> <<>>, current_width |-> 0, result |-> <<>>]

\* the early return of max_width == 0 (176-178)
WrapDisabled(sp) ==
    [WrapLocals(sp) EXCEPT !.pc = "done", !.rest = <<>>, !.result = <<sp>>]

\* `for span in spans`: take the next run (185-188); an empty text never
\* enters the while loop
StepNextSpan(w) ==
    LET span == Head(w.rest)
    IN  [w EXCEPT !.rest = Tail(w.rest),
                  !.remaining = span.content,
                  !.style = span.style,
                  !.pc = IF span.content = <<>> THEN "for" ELSE "while"]

\* the rest of the text fits on the current line (193-198)
StepFits(w) ==
    [w EXCEPT !.current_line = Append(w.current_line, Styled(w.remaining, w.style)),
              !.current_width = w.current_width + Width(w.remaining),
              !.remaining = <<>>,
              !.pc = "for"]

\* available == 0: start a new line and try again (202-210)
StepNewLine(w, ind) ==
    [w EXCEPT !.result = IF w.current_line # <<>>
                         THEN Append(w.result, w.current_line)
                         ELSE w.result,
              !.current_line = <<Raw(Repeat(" ", ind))>>,
              !.current_width = ind]

\* a slip: the split loses the character at the break
SplitAfterSkipsOne(txt, break_at) == SubSeq(txt, break_at + 2, Len(txt))

\* remaining.split_at(break_at): the part before and the part after
SplitBefore(txt, break_at) == SubSeq(txt, 1, break_at)
SplitAfter(txt, break_at) == SubSeq(txt, break_at + 1, Len(txt))

\* break inside the run (212-254)
StepSplit(w, width, ind) ==
    LET break_at == BreakAt(w.remaining, Available(width, w.current_width))
        before == SplitBefore(w.remaining, break_at)
        after == SplitAfter(w.remaining, break_at)
        line == IF before # <<>>
                THEN Append(w.current_line, Styled(before, w.style))
                ELSE w.current_line
    IN  [w EXCEPT !.result = Append(w.result, line),
                  !.current_line = <<Raw(Repeat(" ", ind))>>,
                  !.current_width = ind,
                  !.remaining = TrimStart(after),
                  !.pc = IF TrimStart(after) = <<>> THEN "for" ELSE "while"]

\* after the loops (258-266)
StepReturn(w) ==
    LET pushed == IF w.current_line # <<>>
                  THEN Append(w.result, w.current_line)
                  ELSE w.result
    IN  [w EXCEPT !.result = IF pushed = <<>> THEN <<(<<>>)>> ELSE pushed,
                  !.current_line = <<>>,
                  !.pc = "done"]

\* which branch the while loop takes
TakesFits(w, width) == Fits(w.remaining, width, w.current_width)
TakesNewLine(w, width) ==
    ~TakesFits(w, width) /\ Available(width, w.current_width) = 0
TakesSplit(w, width) ==
    ~TakesFits(w, width) /\ Available(width, w.current_width) > 0

\* one step of wrap_line
WrapStep(w, width, ind) ==
    IF w.pc = "for"
    THEN IF w.rest = <<>> THEN StepReturn(w) ELSE StepNextSpan(w)
    ELSE IF TakesFits(w, width) THEN StepFits(w)
    ELSE IF TakesNewLine(w, width) THEN StepNewLine(w, ind)
    ELSE StepSplit(w, width, ind)

\* the new-line branch repeats for ever: the fresh line is as full as the
\* one it replaced
Diverges(w, width, ind) ==
    /\ w.pc = "while"
    /\ TakesNewLine(w, width)
    /\ ~Fits(w.remaining, width, ind)
    /\ Available(width, ind) = 0

Diverged == << <<[content |-> <<"diverged">>, style |-> StyleDefault]>> >>

RECURSIVE WrapRun(_, _, _)
WrapRun(w, width, ind) ==
    IF w.pc = "done" THEN w.result
    ELSE IF Diverges(w, width, ind) THEN Diverged
    ELSE WrapRun(WrapStep(w, width, ind), width, ind)

\* wrap_line(spans, max_width, indent): its lines, or Diverged when the
\* call does not return
WrapLine(sp, width, ind) ==
    IF width = 0 THEN <<sp>> ELSE WrapRun(WrapLocals(sp), width, ind)

----------------------------------------------------------------------------
(* The inputs of wrap_line. *)

\* all strings of length n
StrsOfLen(n) == [1..n -> Chars]

\* run i of an input carries style i: wrap_line copies styles, never reads them
RunStyle(i) == MkStyle(Some(i), None, {})

RECURSIVE RunsOf(_, _, _)
\* the sequences of r runs holding at most n characters in all
RunsOf(r, n, i) ==
    IF r = 0 THEN {<<>>}
    ELSE UNION { { <<Styled(s, RunStyle(i))>> \o tl : tl \in RunsOf(r - 1, n - Len(s), i + 1) }
                 : s \in UNION {StrsOfLen(k) : k \in 0..n} }

WrapInputs == UNION {RunsOf(r, MaxChars, 1) : r \in 0..MaxRuns}

----------------------------------------------------------------------------
(* Strings as the renderer sees them: bytes, case, lines, numbers. *)

\* the characters that stand for the box-drawing glyphs of render_table
BoxChars == {"tl", "tj", "tr", "lj", "x", "rj", "bl", "bj", "br", "v", "h"}

\* char::len_utf8; "Idot" stands for U+0130 (capital I with dot above) and
\* "dot" for U+0307 (combining dot above)
Utf8Len(c) ==
    IF c = "W" \/ c \in BoxChars THEN 3
    ELSE IF c \in {"Idot", "dot"} THEN 2
    ELSE 1

RECURSIVE ByteLen(_)
\* str::len: the length in bytes
ByteLen(s) == IF s = <<>> THEN 0 ELSE Utf8Len(Head(s)) + ByteLen(Tail(s))

\* char::to_lowercase; U+0130 becomes the two characters 'i', U+0307
LowerChar(c) ==
    IF c = "A" THEN <<"a">>
    ELSE IF c = "Idot" THEN <<"i", "dot">>
    ELSE <<c>>

RECURSIVE ToLowercase(_)
\* str::to_lowercase
ToLowercase(s) ==
    IF s = <<>> THEN <<>> ELSE LowerChar(Head(s)) \o ToLowercase(Tail(s))

\* the number of characters before byte offset b, or None when b is not on
\* a character boundary of s
CharsBefore(s, b) ==
    LET ks == {k \in 0..Len(s) : ByteLen(SubSeq(s, 1, k)) = b}
    IN  IF ks = {} THEN None ELSE Some(CHOOSE k \in ks : TRUE)

\* the characters from boundary ka to boundary kb, or None when an offset is
\* not on a character boundary
SliceChars(s, ka, kb) ==
    IF ka = None \/ kb = None THEN None
    ELSE Some(SubSeq(s, ka[1] + 1, kb[1]))

\* &s[a..b] with byte offsets: the slice, or None when the index panics
Slice(s, a, b) ==
    IF a > b THEN None ELSE SliceChars(s, CharsBefore(s, a), CharsBefore(s, b))

RECURSIVE MatchIndicesFrom(_, _, _)
\* str::match_indices: byte offsets of the occurrences of pat in s, from
\* the left, each search resuming after the previous occurrence
MatchIndicesFrom(s, pat, from) ==
    LET at == {i \in from..(Len(s) - Len(pat) + 1) :
                   SubSeq(s, i, i + Len(pat) - 1) = pat}
        i == CHOOSE i \in at : \A j \in at : i <= j
    IN  IF at = {} THEN <<>>
        ELSE <<ByteLen(SubSeq(s, 1, i - 1))>>
                 \o MatchIndicesFrom(s, pat, i + Len(pat))

MatchIndices(s, pat) == MatchIndicesFrom(s, pat, 1)

RECURSIVE StrLines(_)
\* str::lines: the pieces between line feeds, no piece after a final one
StrLines(s) ==
    LET nl == {i \in 1..Len(s) : s[i] = "\n"}
        i == CHOOSE i \in nl : \A j \in nl : i <= j
    IN  IF s = <<>> THEN <<>>
        ELSE IF nl = {} THEN <<s>>
        ELSE <<SubSeq(s, 1, i - 1)>> \o StrLines(SubSeq(s, i + 1, Len(s)))

Digit(d) ==
    CASE d = 0 -> "0" [] d = 1 -> "1" [] d = 2 -> "2" [] d = 3 -> "3"
      [] d = 4 -> "4" [] d = 5 -> "5" [] d = 6 -> "6" [] d = 7 -> "7"
      [] d = 8 -> "8" [] d = 9 -> "9"

RECURSIVE ToDigits(_)
\* format!("{}", n) of an unsigned number
ToDigits(n) ==
    IF n < 10 THEN <<Digit(n)>> ELSE Append(ToDigits(n \div 10), Digit(n % 10))

\* str::trim_start_matches(['#', ' '])
RECURSIVE TrimStartMatches(_)
TrimStartMatches(s) ==
    IF s # <<>> /\ (Head(s) = "#" \/ Head(s) = " ")
    THEN TrimStartMatches(Tail(s)) ELSE s

\* format!("{:<width$}"), format!("{:>width$}"), format!("{:^width$}"):
\* padding counts characters
PadLeft(s, width) ==
    IF Len(s) >= width THEN s ELSE s \o Repeat(" ", width - Len(s))
PadRight(s, width) ==
    IF Len(s) >= width THEN s ELSE Repeat(" ", width - Len(s)) \o s
PadCenter(s, width) ==
    IF Len(s) >= width THEN s
    ELSE Repeat(" ", (width - Len(s)) \div 2) \o s
             \o Repeat(" ", (width - Len(s)) - ((width - Len(s)) \div 2))

\* a slip: the plain subtraction
PlainSub(a, b) == a - b

\* usize::saturating_sub
SaturatingSub(a, b) == IF a >= b THEN a - b ELSE 0

\* the last element of a vector, or a default
LastOr(v, default) == IF v = <<>> THEN default ELSE v[Len(v)]

\* Vec::pop
Pop(v) == IF v = <<>> THEN v ELSE SubSeq(v, 1, Len(v) - 1)

----------------------------------------------------------------------------
(* Theme and options. *)

\* Style::patch: what the overlay sets wins, the rest is inherited
Patch(base, over) ==
    [fg |-> IF over.fg # None THEN over.fg ELSE base.fg,
     bg |-> IF over.bg # None THEN over.bg ELSE base.bg,
     add_modifier |-> base.add_modifier \cup over.add_modifier]

Modified(m) == MkStyle(None, None, {m})
Colored(c) == MkStyle(Some(c), None, {})

\* Theme::default() with the ASCII glyphs of Theme::plain()
ThemeOf(show_urls) ==
    [text |-> StyleDefault,
     emphasis |-> Modified("ITALIC"),
     strong |-> Modified("BOLD"),
     strikethrough |-> Modified("CROSSED_OUT"),
     underline |-> Modified("UNDERLINED"),
     code_inline |-> Colored("Yellow"),
     code_block |-> Colored("White"),
     code_block_info |-> MkStyle(Some("DarkGray"), None, {"ITALIC"}),
     link |-> MkStyle(Some("Cyan"), None, {"UNDERLINED"}),
     link_url |-> Colored("DarkGray"),
     image |-> Colored("Magenta"),
     heading |-> <<MkStyle(Some("Cyan"), None, {"BOLD"}),
                   MkStyle(Some("Green"), None, {"BOLD"}),
                   MkStyle(Some("Yellow"), None, {"BOLD"}),
                   MkStyle(Some("Blue"), None, {"BOLD"}),
                   MkStyle(Some("Magenta"), None, {"BOLD"}),
                   MkStyle(Some("Red"), None, {"BOLD"})>>,
     blockquote |-> Colored("Gray"),
     blockquote_marker |-> Colored("DarkGray"),
     horizontal_rule |-> Colored("DarkGray"),
     list_bullet |-> Colored("Cyan"),
     list_number |-> Colored("Cyan"),
     table_header |-> Modified("BOLD"),
     table_cell |-> StyleDefault,
     table_border |-> Colored("DarkGray"),
     html_entity |-> Colored("Yellow"),
     raw_html |-> Colored("DarkGray"),
     latex_math |-> Colored("Magenta"),
     wiki_link |-> MkStyle(Some("Blue"), None, {"UNDERLINED"}),
     bullet_char |-> "*",
     hr_char |-> "-",
     blockquote_prefix |-> <<">", " ">>,
     show_link_urls |-> show_urls,
     list_indent |-> 2,
     task_unchecked_char |-> " ",
     task_checked_char |-> "x"]

\* Theme::heading_style
HeadingStyle(th, level) ==
    IF level \in 1..5 THEN th.heading[level] ELSE th.heading[6]

\* the highlight style of RenderOptions::new
SearchStyle == MkStyle(Some("Black"), Some("Yellow"), {"BOLD"})

\* RenderOptions::new()
OptionsNew ==
    [width |-> 0,
     heading_space |-> TRUE,
     paragraph_space |-> TRUE,
     code_block_space |-> TRUE,
     list_space |-> TRUE,
     search_pattern |-> None,
     search_highlight_style |-> SearchStyle]

\* RenderOptions::default(), the derived Default
OptionsDefault ==
    [width |-> 0,
     heading_space |-> FALSE,
     paragraph_space |-> FALSE,
     code_block_space |-> FALSE,
     list_space |-> FALSE,
     search_pattern |-> None,
     search_highlight_style |-> StyleDefault]

\* RenderOptions::with_width
WithWidth(o, width) == [o EXCEPT !.width = width]

\* RenderOptions::with_search
WithSearch(o, pattern) == [o EXCEPT !.search_pattern = Some(pattern)]

\* the width of a horizontal rule when wrapping is off
HrWidth == 40

----------------------------------------------------------------------------
(* highlight_search (renderer.rs 270-310). *)

\* the pushes of one match; acc holds result, matches, last_end, char_offset
\* and whether a slice has panicked
HighlightMatch(acc, base_style, style, match_start, match_end, before, hit) ==
    IF before = None \/ hit = None
    THEN [acc EXCEPT !.panic = TRUE]
    ELSE [acc EXCEPT
             !.result = Append(IF match_start > acc.last_end
                               THEN Append(acc.result, Styled(before[1], base_style))
                               ELSE acc.result,
                               Styled(hit[1], style)),
             !.matches = Append(acc.matches,
                                <<acc.char_offset + match_start,
                                  acc.char_offset + match_end>>),
             !.last_end = match_end]

\* the pass for the match at match_start
HighlightAt(txt, pattern, base_style, style, acc, match_start) ==
    HighlightMatch(acc, base_style, style,
        match_start, match_start + ByteLen(pattern),
        IF match_start > acc.last_end
        THEN Slice(txt, acc.last_end, match_start) ELSE Some(<<>>),
        Slice(txt, match_start, match_start + ByteLen(pattern)))

RECURSIVE HighlightMatches(_, _, _, _, _, _)
\* `for (match_start, _) in text_lower.match_indices(&pattern_lower)`
HighlightMatches(txt, ms, pattern, base_style, style, acc) ==
    IF ms = <<>> \/ acc.panic THEN acc
    ELSE HighlightMatches(txt, Tail(ms), pattern, base_style, style,
             HighlightAt(txt, pattern, base_style, style, acc, Head(ms)))

\* one pass of `for span in spans`
HighlightRest(a1, base_style, len, rest) ==
    IF a1.panic THEN a1
    ELSE IF rest = None THEN [a1 EXCEPT !.panic = TRUE]
    ELSE [a1 EXCEPT
             !.result = IF a1.last_end < len
                        THEN Append(a1.result, Styled(rest[1], base_style))
                        ELSE a1.result,
             !.char_offset = a1.char_offset + len]

\* the remaining non-matching part of the run, after its matches
HighlightTail(txt, base_style, a1) ==
    HighlightRest(a1, base_style, ByteLen(txt),
        IF a1.last_end < ByteLen(txt)
        THEN Slice(txt, a1.last_end, ByteLen(txt)) ELSE Some(<<>>))

\* one pass of `for span in spans`
HighlightSpan(span, pattern, style, acc) ==
    HighlightTail(span.content, span.style,
        HighlightMatches(span.content,
            MatchIndices(ToLowercase(span.content), ToLowercase(pattern)),
            pattern, span.style, style, [acc EXCEPT !.last_end = 0]))

RECURSIVE HighlightSpans(_, _, _, _)
HighlightSpans(sp, pattern, style, acc) ==
    IF sp = <<>> \/ acc.panic THEN acc
    ELSE HighlightSpans(Tail(sp), pattern, style,
                        HighlightSpan(Head(sp), pattern, style, acc))

\* what highlight_search returns, and whether it panicked
HighlightResult(acc) ==
    [result |-> acc.result, matches |-> acc.matches, panic |-> acc.panic]

\* highlight_search(spans, pattern, style): the runs, the matches, and
\* whether the call panicked
highlight_search(sp, pattern, style) ==
    IF pattern = <<>>
    THEN [result |-> sp, matches |-> <<>>, panic |-> FALSE]
    ELSE HighlightResult(
             HighlightSpans(sp, pattern, style,
                 [result |-> <<>>, matches |-> <<>>, last_end |-> 0,
                  char_offset |-> 0, panic |-> FALSE]))

----------------------------------------------------------------------------
(* RendererState (renderer.rs 313-668).  The field `fault` is not a field  *)
(* of the struct: it records that a handler did not return ("hang": a call *)
(* of wrap_line that loops for ever, "panic": a slice out of range).       *)

\* RendererState::new
RendererNew(th) ==
    [lines |-> <<>>,
     current_spans |-> <<>>,
     links |-> <<>>,
     headings |-> <<>>,
     search_matches |-> <<>>,
     style_stack |-> <<th.text>>,
     in_heading |-> None,
     in_blockquote |-> FALSE,
     in_code_block |-> FALSE,
     code_block_lang |-> <<>>,
     code_block_content |-> <<>>,
     in_list |-> FALSE,
     list_depth |-> 0,
     list_counters |-> <<>>,
     list_is_ordered |-> <<>>,
     current_task_state |-> None,
     in_table |-> FALSE,
     table_columns |-> 0,
     table_alignments |-> <<>>,
     table_rows |-> <<>>,
     current_table_row |-> <<>>,
     current_table_cell |-> <<>>,
     in_table_header |-> FALSE,
     current_link |-> None,
     current_link_text |-> <<>>,
     pending_newline |-> FALSE,
     fault |-> "none"]

\* RendererState::current_style
current_style(st, th) == LastOr(st.style_stack, th.text)

\* a slip: the new style takes the place of the top one
push_style_in_place(st, th, style) ==
    [st EXCEPT !.style_stack =
        SubSeq(@, 1, Len(@) - 1) \o <<Patch(current_style(st, th), style)>>]

\* RendererState::push_style
push_style(st, th, style) ==
    [st EXCEPT !.style_stack = Append(@, Patch(current_style(st, th), style))]

\* a slip: the pop is not guarded
pop_style_unguarded(st) ==
    [st EXCEPT !.style_stack = SubSeq(@, 1, Len(@) - 1)]

\* RendererState::pop_style
pop_style(st) ==
    IF Len(st.style_stack) > 1
    THEN [st EXCEPT !.style_stack = SubSeq(@, 1, Len(@) - 1)]
    ELSE st

\* RendererState::push_text
push_text(st, th, txt) ==
    IF txt = <<>> THEN st
    ELSE IF st.in_code_block
    THEN [st EXCEPT !.code_block_content = @ \o txt]
    ELSE IF st.in_table
    THEN [st EXCEPT !.current_table_cell =
                        Append(@, Styled(txt, current_style(st, th)))]
    ELSE [st EXCEPT
             !.current_link_text = IF st.current_link # None THEN @ \o txt ELSE @,
             !.current_spans = Append(@, Styled(txt, current_style(st, th)))]

\* the SearchMatch records of one flushed line
MatchRecords(line_idx, matches) ==
    [i \in 1..Len(matches) |->
        [line |-> line_idx, start |-> matches[i][1], end |-> matches[i][2]]]

\* the runs taken from current_spans, behind the blockquote prefix
Prefixed(st, th) ==
    IF st.in_blockquote /\ st.current_spans # <<>>
    THEN <<Styled(th.blockquote_prefix, th.blockquote_marker)>> \o st.current_spans
    ELSE st.current_spans

\* the search highlighting of finish_line_with_wrap
Highlighted(runs, op) ==
    IF op.search_pattern # None
    THEN highlight_search(runs, op.search_pattern[1], op.search_highlight_style)
    ELSE [result |-> runs, matches |-> <<>>, panic |-> FALSE]

\* the wrapping of finish_line_with_wrap
WrappedOrWhole(runs, width, ind) ==
    IF width > 0 /\ runs # <<>> THEN WrapLine(runs, width, ind) ELSE <<runs>>

\* the match records and the lines finish_line_with_wrap pushes
PushLines(st, matches, wrapped) ==
    IF wrapped = Diverged
    THEN [st EXCEPT
             !.current_spans = <<>>,
             !.search_matches = @ \o MatchRecords(Len(st.lines), matches),
             !.fault = "hang"]
    ELSE [st EXCEPT
             !.current_spans = <<>>,
             !.search_matches = @ \o MatchRecords(Len(st.lines), matches),
             !.lines = @ \o wrapped,
             !.pending_newline = FALSE]

\* finish_line_with_wrap from the highlighted runs on
PushHighlighted(st, op, ind, hl) ==
    IF hl.panic THEN [st EXCEPT !.current_spans = <<>>, !.fault = "panic"]
    ELSE PushLines(st, hl.matches, WrappedOrWhole(hl.result, op.width, ind))

\* RendererState::finish_line_with_wrap
finish_line_with_wrap(st, th, op, ind) ==
    IF st.fault # "none" \/ st.in_table \/ st.in_code_block THEN st
    ELSE IF st.current_spans = <<>> /\ ~st.pending_newline
    THEN [st EXCEPT !.current_spans = <<>>]
    ELSE PushHighlighted(st, op, ind, Highlighted(Prefixed(st, th), op))

\* a slip: the line break taken for the end of a block
FinishLineAndBlank(st, th, op) ==
    IF finish_line_with_wrap(st, th, op, 0).fault # "none"
    THEN finish_line_with_wrap(st, th, op, 0)
    ELSE [finish_line_with_wrap(st, th, op, 0) EXCEPT !.lines = Append(@, <<>>)]

\* RendererState::finish_line
finish_line(st, th, op) == finish_line_with_wrap(st, th, op, 0)

\* the empty line add_blank_line pushes
PushBlank(st) ==
    IF st.fault # "none" THEN st ELSE [st EXCEPT !.lines = Append(@, <<>>)]

\* RendererState::add_blank_line
add_blank_line(st, th, op) == PushBlank(finish_line(st, th, op))

\* RendererState::get_list_prefix: the prefix and the state it leaves
get_list_prefix(st, th) ==
    LET ind == Repeat(" ", SaturatingSub(st.list_depth, 1) * th.list_indent)
        idx == st.list_depth - 1
    IN  IF st.current_task_state # None
        THEN [st |-> [st EXCEPT !.current_task_state = None],
              prefix |-> ind \o
                  <<CASE st.current_task_state[1] = "Checked" -> th.task_checked_char
                      [] st.current_task_state[1] = "Unchecked" -> th.task_unchecked_char
                      [] OTHER -> th.bullet_char,
                    " ">>]
        ELSE IF st.list_depth = 0 THEN [st |-> st, prefix |-> <<>>]
        ELSE IF idx < Len(st.list_is_ordered) /\ st.list_is_ordered[idx + 1]
        THEN [st |-> st,
              prefix |-> ind
                  \o ToDigits(IF idx < Len(st.list_counters)
                              THEN st.list_counters[idx + 1] ELSE 1)
                  \o <<".", " ">>]
        ELSE [st |-> st, prefix |-> ind \o <<th.bullet_char, " ">>]

\* RendererState::render_horizontal_rule
render_horizontal_rule(st, th, op) ==
    LET width == IF op.width > 0 THEN op.width ELSE HrWidth
    IN  [st EXCEPT !.lines =
            Append(@, <<Styled(Repeat(th.hr_char, width), th.horizontal_rule)>>)]

RECURSIVE RenderCodeLines(_, _, _, _)
\* the loop of render_code_block over content.lines()
RenderCodeLines(st, th, op, ls) ==
    IF ls = <<>> \/ st.fault # "none" THEN st
    ELSE
        LET sp == <<Styled(Head(ls), th.code_block)>>
            hl == IF op.search_pattern # None
                  THEN highlight_search(sp, op.search_pattern[1],
                                        op.search_highlight_style)
                  ELSE [result |-> sp, matches |-> <<>>, panic |-> FALSE]
        IN  IF hl.panic THEN [st EXCEPT !.fault = "panic"]
            ELSE RenderCodeLines(
                     [st EXCEPT
                         !.search_matches = @ \o MatchRecords(Len(st.lines), hl.matches),
                         !.lines = Append(@, hl.result)],
                     th, op, Tail(ls))

\* RendererState::render_code_block, without the optional syntect feature
render_code_block(st, th, op) ==
    RenderCodeLines([st EXCEPT !.code_block_content = <<>>,
                               !.code_block_lang = <<>>],
                    th, op, StrLines(st.code_block_content))

----------------------------------------------------------------------------
(* render_table (renderer.rs 574-667). *)

RECURSIVE Join(_, _)
\* Vec<String>::join
Join(parts, sep) ==
    IF parts = <<>> THEN <<>>
    ELSE IF Len(parts) = 1 THEN parts[1]
    ELSE parts[1] \o sep \o Join(Tail(parts), sep)

\* the display width of a cell: the sum over its runs
CellWidth(cell) == LineWidth(cell)

\* a slip: no least width
ColWidthsNoFloor(rows, columns) ==
    [c \in 1..columns |->
        LET ws == {CellWidth(rows[r][c]) :
                       r \in {r \in 1..Len(rows) : c <= Len(rows[r])}}
        IN  IF ws = {} THEN 0 ELSE Max(ws)]

\* the column widths: the widest cell of each column, at least 3
ColWidths(rows, columns) ==
    [c \in 1..columns |->
        LET ws == {CellWidth(rows[r][c]) :
                       r \in {r \in 1..Len(rows) : c <= Len(rows[r])}}
            widest == IF ws = {} THEN 0 ELSE Max(ws)
        IN  IF widest >= 3 THEN widest ELSE 3]

\* a border line: corner, one segment per column joined by a junction, corner
BorderLine(th, col_widths, left, mid, right) ==
    <<Styled(<<left>>
                 \o Join([c \in 1..Len(col_widths) |-> Repeat("h", col_widths[c] + 2)],
                         <<mid>>)
                 \o <<right>>,
             th.table_border)>>

\* the alignment of a column
AlignOf(alignments, c) ==
    IF c <= Len(alignments) THEN alignments[c] ELSE "Default"

\* a slip: a column without a declared alignment is centred
PadCellDefaultCentred(cell_text, width, align) ==
    CASE align \in {"Center", "Default"} -> PadCenter(cell_text, width)
      [] align = "Right" -> PadRight(cell_text, width)
      [] OTHER -> PadLeft(cell_text, width)

\* the padded text of a cell
PadCell(cell_text, width, align) ==
    CASE align = "Center" -> PadCenter(cell_text, width)
      [] align = "Right" -> PadRight(cell_text, width)
      [] OTHER -> PadLeft(cell_text, width)

RECURSIVE RowSpans(_, _, _, _, _, _)
\* the runs of one row line: every cell of the row, then a separator
RowSpans(th, row, col_idx, col_widths, alignments, style) ==
    IF col_idx > Len(row) THEN <<>>
    ELSE <<Styled(PadCell(LineText(row[col_idx]),
                          IF col_idx <= Len(col_widths) THEN col_widths[col_idx] ELSE 3,
                          AlignOf(alignments, col_idx)),
                  style),
           Styled(<<" ", "v", " ">>, th.table_border)>>
             \o RowSpans(th, row, col_idx + 1, col_widths, alignments, style)

\* the line of one row
RowLine(th, row, row_idx, col_widths, alignments) ==
    <<Styled(<<"v", " ">>, th.table_border)>>
        \o RowSpans(th, row, 1, col_widths, alignments,
                    IF row_idx = 0 THEN th.table_header ELSE th.table_cell)

\* a slip: the colons of Left and Right change sides
SepMarkerSwapped(w, align) ==
    CASE align = "Right" -> <<":">> \o Repeat("h", w) \o <<"h">>
      [] align = "Left" -> Repeat("h", w) \o <<"h", ":">>
      [] align = "Center" -> <<":">> \o Repeat("h", w) \o <<":">>
      [] OTHER -> Repeat("h", w + 2)

\* the marker of one column in the header separator
SepMarker(w, align) ==
    CASE align = "Left" -> <<":">> \o Repeat("h", w) \o <<"h">>
      [] align = "Right" -> Repeat("h", w) \o <<"h", ":">>
      [] align = "Center" -> <<":">> \o Repeat("h", w) \o <<":">>
      [] OTHER -> Repeat("h", w + 2)

\* the header separator line
SeparatorLine(th, col_widths, alignments) ==
    <<Styled(<<"lj">>
                 \o Join([c \in 1..Len(col_widths) |->
                             SepMarker(col_widths[c], AlignOf(alignments, c))],
                         <<"x">>)
                 \o <<"rj">>,
             th.table_border)>>

RECURSIVE RowLines(_, _, _, _, _)
\* the lines of the rows from row_idx on, the separator after the first row
RowLines(th, rows, row_idx, col_widths, alignments) ==
    IF row_idx >= Len(rows) THEN <<>>
    ELSE <<RowLine(th, rows[row_idx + 1], row_idx, col_widths, alignments)>>
             \o (IF row_idx = 0
                 THEN <<SeparatorLine(th, col_widths, alignments)>>
                 ELSE <<>>)
             \o RowLines(th, rows, row_idx + 1, col_widths, alignments)

\* RendererState::render_table
render_table(st, th) ==
    IF st.table_rows = <<>> THEN st
    ELSE
        LET col_widths == ColWidths(st.table_rows, st.table_columns)
        IN  [st EXCEPT
                !.lines = @
                    \o <<BorderLine(th, col_widths, "tl", "tj", "tr")>>
                    \o RowLines(th, st.table_rows, 0, col_widths, st.table_alignments)
                    \o <<BorderLine(th, col_widths, "bl", "bj", "br")>>,
                !.table_rows = <<>>,
                !.table_columns = 0,
                !.table_alignments = <<>>]

----------------------------------------------------------------------------
(* The ParserHandler callbacks of RendererState (renderer.rs 670-997). *)

\* ParserHandler::enter_block
enter_block(st, th, op, block) ==
    CASE block.type = "Document" -> st
      [] block.type = "Paragraph" ->
            IF st.in_list /\ st.list_depth > 0
            THEN LET p == get_list_prefix(st, th)
                 IN  IF p.prefix # <<>>
                     THEN [p.st EXCEPT !.current_spans =
                              Append(@, Styled(p.prefix,
                                  IF LastOr(st.list_is_ordered, FALSE)
                                  THEN th.list_number ELSE th.list_bullet))]
                     ELSE p.st
            ELSE st
      [] block.type = "Heading" ->
            LET s1 == push_style([st EXCEPT !.in_heading = Some(block.level)],
                                 th, HeadingStyle(th, block.level))
            IN  [s1 EXCEPT !.current_spans =
                    Append(@, Styled(Repeat("#", block.level) \o <<" ">>,
                                     HeadingStyle(th, block.level)))]
      [] block.type = "Quote" ->
            push_style([st EXCEPT !.in_blockquote = TRUE], th, th.blockquote)
      [] block.type = "Code" ->
            LET s1 == [st EXCEPT
                          !.in_code_block = TRUE,
                          !.code_block_lang = block.lang,
                          !.code_block_content = <<>>,
                          !.lines = IF block.lang # <<>>
                                    THEN Append(@, <<Styled(block.lang \o <<":">>,
                                                            th.code_block_info)>>)
                                    ELSE @]
            IN  push_style(s1, th, th.code_block)
      [] block.type = "UnorderedList" ->
            [st EXCEPT !.in_list = TRUE,
                       !.list_depth = @ + 1,
                       !.list_is_ordered = Append(@, FALSE),
                       !.list_counters = Append(@, 1)]
      [] block.type = "OrderedList" ->
            [st EXCEPT !.in_list = TRUE,
                       !.list_depth = @ + 1,
                       !.list_is_ordered = Append(@, TRUE),
                       !.list_counters = Append(@, block.start)]
      [] block.type = "ListItem" ->
            IF block.task_state # "NotTask"
            THEN [st EXCEPT !.current_task_state = Some(block.task_state)]
            ELSE st
      [] block.type = "HorizontalRule" -> render_horizontal_rule(st, th, op)
      [] block.type = "Html" -> push_style(st, th, th.raw_html)
      [] block.type = "Table" ->
            [st EXCEPT !.in_table = TRUE,
                       !.table_columns = block.column_count,
                       !.table_alignments =
                           [c \in 1..block.column_count |-> "Default"]]
      [] block.type = "TableHead" -> [st EXCEPT !.in_table_header = TRUE]
      [] block.type = "TableBody" -> [st EXCEPT !.in_table_header = FALSE]
      [] block.type = "TableRow" -> [st EXCEPT !.current_table_row = <<>>]
      [] block.type \in {"TableHeaderCell", "TableCell"} ->
            LET col_idx == Len(st.current_table_row)
            IN  [st EXCEPT
                    !.current_table_cell = <<>>,
                    !.table_alignments =
                        IF col_idx < Len(st.table_alignments)
                        THEN [@ EXCEPT ![col_idx + 1] = block.alignment]
                        ELSE @]

\* a slip: the line number and the level change places
HeadingInfoSwapped(line, level, txt) ==
    [line |-> level, level |-> line, text |-> txt]

\* HeadingInfo, the record leave_block pushes for a Heading
HeadingInfo(line, level, txt) ==
    [line |-> line, level |-> level, text |-> txt]

\* a slip: the item is counted in the outermost list
CountItemOutermost(list_counters) ==
    [list_counters EXCEPT ![1] = @ + 1]

\* leave_block of a ListItem: `*counter += 1` on list_counters.last_mut()
CountItem(list_counters) ==
    [list_counters EXCEPT ![Len(list_counters)] = @ + 1]

\* ParserHandler::leave_block
leave_block(st, th, op, block_type) ==
    CASE block_type = "Document" -> st
      [] block_type = "Paragraph" ->
            LET ind == IF st.in_list THEN st.list_depth * th.list_indent ELSE 0
                s1 == finish_line_with_wrap(st, th, op, ind)
            IN  IF op.paragraph_space /\ ~st.in_list
                THEN add_blank_line(s1, th, op) ELSE s1
      [] block_type = "Heading" ->
            LET s1 == IF st.in_heading # None
                      THEN [st EXCEPT
                               !.in_heading = None,
                               !.headings = Append(@,
                                   HeadingInfo(Len(st.lines), st.in_heading[1],
                                       TrimStartMatches(LineText(st.current_spans))))]
                      ELSE st
                s2 == finish_line(s1, th, op)
                s3 == IF s2.fault # "none" THEN s2 ELSE pop_style(s2)
            IN  IF op.heading_space THEN add_blank_line(s3, th, op) ELSE s3
      [] block_type = "Quote" ->
            LET s1 == finish_line(st, th, op)
                s2 == IF s1.fault # "none" THEN s1
                      ELSE pop_style([s1 EXCEPT !.in_blockquote = FALSE])
            IN  add_blank_line(s2, th, op)
      [] block_type = "Code" ->
            LET s1 == render_code_block(st, th, op)
                s2 == IF s1.fault # "none" THEN s1
                      ELSE pop_style([s1 EXCEPT !.in_code_block = FALSE])
            IN  IF op.code_block_space THEN add_blank_line(s2, th, op) ELSE s2
      [] block_type \in {"UnorderedList", "OrderedList"} ->
            LET s1 == [st EXCEPT !.list_depth = SaturatingSub(@, 1),
                                 !.list_is_ordered = Pop(@),
                                 !.list_counters = Pop(@)]
            IN  IF s1.list_depth = 0
                THEN IF op.list_space
                     THEN add_blank_line([s1 EXCEPT !.in_list = FALSE], th, op)
                     ELSE [s1 EXCEPT !.in_list = FALSE]
                ELSE s1
      [] block_type = "ListItem" ->
            LET s1 == finish_line(st, th, op)
            IN  IF s1.fault # "none" \/ s1.list_counters = <<>> THEN s1
                ELSE [s1 EXCEPT !.list_counters = CountItem(@)]
      [] block_type = "HorizontalRule" -> add_blank_line(st, th, op)
      [] block_type = "Html" ->
            LET s1 == finish_line(st, th, op)
            IN  IF s1.fault # "none" THEN s1 ELSE pop_style(s1)
      [] block_type = "Table" ->
            add_blank_line([render_table(st, th) EXCEPT !.in_table = FALSE], th, op)
      [] block_type \in {"TableHead", "TableBody"} -> st
      [] block_type = "TableRow" ->
            [st EXCEPT !.table_rows = Append(@, st.current_table_row),
                       !.current_table_row = <<>>]
      [] block_type \in {"TableHeaderCell", "TableCell"} ->
            [st EXCEPT !.current_table_row = Append(@, st.current_table_cell),
                       !.current_table_cell = <<>>]
      [] OTHER -> st

\* ParserHandler::enter_span
enter_span(st, th, span) ==
    CASE span.type = "Emphasis" -> push_style(st, th, th.emphasis)
      [] span.type = "Strong" -> push_style(st, th, th.strong)
      [] span.type = "Strikethrough" -> push_style(st, th, th.strikethrough)
      [] span.type = "Underline" -> push_style(st, th, th.underline)
      [] span.type = "Code" -> push_style(st, th, th.code_inline)
      [] span.type = "Link" ->
            push_style([st EXCEPT !.current_link = Some(span),
                                  !.current_link_text = <<>>],
                       th, th.link)
      [] span.type = "Image" ->
            LET s1 == push_text(push_style(st, th, th.image), th,
                          <<"[">> \o (IF span.title = <<>>
                                      THEN <<"i", "m", "a", "g", "e">>
                                      ELSE span.title) \o <<"]">>)
            IN  IF span.src # <<>>
                THEN [s1 EXCEPT !.current_spans =
                         Append(@, Styled(<<"(">> \o span.src \o <<")">>, th.link_url))]
                ELSE s1
      [] span.type \in {"LatexMath", "LatexMathDisplay"} ->
            push_style(st, th, th.latex_math)
      [] span.type = "WikiLink" ->
            [push_style(st, th, th.wiki_link) EXCEPT
                !.links = Append(@, [line |-> Len(st.lines),
                                     url |-> span.target,
                                     text |-> span.target,
                                     is_autolink |-> FALSE])]

\* ParserHandler::leave_span
leave_span(st, th, span_type) ==
    IF span_type = "Link" /\ st.current_link # None
    THEN LET detail == st.current_link[1]
             s1 == [st EXCEPT
                       !.current_link = None,
                       !.current_link_text = <<>>,
                       !.links = Append(@, [line |-> Len(st.lines),
                                            url |-> detail.href,
                                            text |-> st.current_link_text,
                                            is_autolink |-> detail.is_autolink])]
         IN  IF th.show_link_urls /\ detail.href # <<>>
             THEN [pop_style(s1) EXCEPT !.current_spans =
                      Append(@, Styled(<<" ", "(">> \o detail.href \o <<")">>,
                                       th.link_url))]
             ELSE pop_style(s1)
    ELSE pop_style(st)

\* ParserHandler::text
text(st, th, op, text_type, content) ==
    CASE text_type \in {"Normal", "Code", "LatexMath"} -> push_text(st, th, content)
      [] text_type = "HardBreak" ->
            IF st.in_code_block
            THEN [st EXCEPT !.code_block_content = Append(@, "\n")]
            ELSE LET s1 == finish_line(st, th, op)
                 IN  IF s1.fault = "none" /\ s1.in_list /\ s1.list_depth > 0
                     THEN [s1 EXCEPT !.current_spans =
                              Append(@, Raw(Repeat(" ", s1.list_depth * th.list_indent)))]
                     ELSE s1
      [] text_type = "SoftBreak" ->
            IF st.in_code_block
            THEN [st EXCEPT !.code_block_content = Append(@, "\n")]
            ELSE push_text(st, th, <<" ">>)
      [] text_type = "Entity" ->
            [st EXCEPT !.current_spans = Append(@, Styled(content, th.html_entity))]
      [] text_type = "Html" ->
            [st EXCEPT !.current_spans = Append(@, Styled(content, th.raw_html))]
      [] text_type = "NullChar" -> push_text(st, th, <<"?">>)
      [] OTHER -> push_text(st, th, content)

----------------------------------------------------------------------------
(* The event stream of md4c::parse, delivered to the callbacks one event   *)
(* at a time, and render() (renderer.rs 1017-1037).                         *)

Block(type) == [type |-> type]
Heading(level) == [type |-> "Heading", level |-> level]
CodeBlock(lang) == [type |-> "Code", lang |-> lang]
OrderedList(start) == [type |-> "OrderedList", start |-> start]
ListItem(task_state) == [type |-> "ListItem", task_state |-> task_state]
Table(column_count) == [type |-> "Table", column_count |-> column_count]
Cell(type, alignment) == [type |-> type, alignment |-> alignment]

Span(type) == [type |-> type]
Link(href, is_autolink) ==
    [type |-> "Link", href |-> href, title |-> <<>>, is_autolink |-> is_autolink]
Image(src, title) == [type |-> "Image", src |-> src, title |-> title]
WikiLink(target) == [type |-> "WikiLink", target |-> target]

BlockTypes ==
    {"Document", "Quote", "UnorderedList", "OrderedList", "ListItem",
     "HorizontalRule", "Heading", "Code", "Html", "Paragraph", "Table",
     "TableHead", "TableBody", "TableRow", "TableHeaderCell", "TableCell"}

SpanTypes ==
    {"Emphasis", "Strong", "Link", "Image", "Code", "Strikethrough",
     "LatexMath", "LatexMathDisplay", "WikiLink", "Underline"}

TextTypes ==
    {"Normal", "NullChar", "HardBreak", "SoftBreak", "Entity", "Code", "Html",
     "LatexMath"}

\* the blocks and spans whose Enter pushes a style and whose Leave pops it
StyledBlockTypes == {"Heading", "Quote", "Code", "Html"}

\* an entry of the stack of open elements
Opened(kind, type, st) ==
    [kind |-> kind, type |-> type, depth |-> Len(st.style_stack)]

\* the innermost open element
Top == open[Len(open)]

TopIsBlock(types) == open # <<>> /\ Top.kind = "block" /\ Top.type \in types
TopIsSpan == open # <<>> /\ Top.kind = "span"

\* blocks that hold blocks, blocks that hold inline content, blocks that
\* hold text only
ContainerTypes == {"Document", "Quote", "ListItem"}
InlineTypes == {"Paragraph", "Heading", "ListItem", "TableHeaderCell", "TableCell"}
VerbatimTypes == {"Code", "Html"}

\* the index of the last EnterBlock of this type, 0 if there is none
LastEnter(type) ==
    LET at == {i \in 1..Len(events) :
                   events[i].event = "EnterBlock" /\ events[i].detail.type = type}
    IN  IF at = {} THEN 0 ELSE Max(at)

\* the EnterBlock events of these types delivered after event i
EntersSince(i, types) ==
    {j \in (i + 1)..Len(events) :
        events[j].event = "EnterBlock" /\ events[j].detail.type \in types}

CellTypes == {"TableHeaderCell", "TableCell"}

\* the cells of the open row so far, and the columns of the open table
CellsInRow == Cardinality(EntersSince(LastEnter("TableRow"), CellTypes))
TableColumns == events[LastEnter("Table")].detail.column_count

\* the alignment of column c of the open table, from its header cell
HeaderAlignment(c) ==
    LET hs == EntersSince(LastEnter("Table"), {"TableHeaderCell"})
    IN  events[CHOOSE j \in hs : Cardinality({k \in hs : k <= j}) = c].detail.alignment

\* the nesting discipline of the parser for blocks: a table has one head
\* of one row, then at most one body; every row has one cell per column,
\* aligned as the column is
CanEnterBlock(b) ==
    CASE b.type = "Document" -> open = <<>> /\ events = <<>>
      [] b.type = "ListItem" -> TopIsBlock({"UnorderedList", "OrderedList"})
      [] b.type = "TableHead" ->
            TopIsBlock({"Table"})
                /\ EntersSince(LastEnter("Table"), {"TableHead"}) = {}
      [] b.type = "TableBody" ->
            TopIsBlock({"Table"})
                /\ EntersSince(LastEnter("Table"), {"TableHead"}) # {}
                /\ EntersSince(LastEnter("Table"), {"TableBody"}) = {}
      [] b.type = "TableRow" ->
            \/ TopIsBlock({"TableBody"})
            \/ TopIsBlock({"TableHead"})
                   /\ EntersSince(LastEnter("TableHead"), {"TableRow"}) = {}
      [] b.type = "TableHeaderCell" ->
            TopIsBlock({"TableRow"}) /\ open[Len(open) - 1].type = "TableHead"
                /\ CellsInRow < TableColumns
      [] b.type = "TableCell" ->
            TopIsBlock({"TableRow"}) /\ open[Len(open) - 1].type = "TableBody"
                /\ CellsInRow < TableColumns
                /\ b.alignment = HeaderAlignment(CellsInRow + 1)
      [] OTHER -> TopIsBlock(ContainerTypes)

\* a row closes after its last cell, a head after its row, a body after a
\* row, a table after its head
CanLeaveBlock ==
    CASE Top.type = "TableRow" -> CellsInRow = TableColumns
      [] Top.type = "TableHead" ->
            EntersSince(LastEnter("TableHead"), {"TableRow"}) # {}
      [] Top.type = "TableBody" ->
            EntersSince(LastEnter("TableBody"), {"TableRow"}) # {}
      [] Top.type = "Table" ->
            EntersSince(LastEnter("Table"), {"TableHead"}) # {}
      [] OTHER -> TRUE

\* spans open inside inline content and inside spans other than code spans
CanEnterSpan(s) ==
    \/ TopIsBlock(InlineTypes)
    \/ (TopIsSpan /\ Top.type # "Code")

\* text is delivered inside inline content, spans and verbatim blocks
CanText == TopIsBlock(InlineTypes \cup VerbatimTypes) \/ TopIsSpan

\* the parser is still delivering events and no callback has failed to return
Parsing == phase = "parse" /\ state.fault = "none"

\* an Enter is delivered only if the stream can still close within max events
Room(max) == Len(events) + Len(open) + 2 <= max

wrapIdle == UNCHANGED <<spans, max_width, indent, wrap, view>>

DocEnterBlock(blocks, max) ==
    \E b \in blocks :
        /\ Parsing /\ CanEnterBlock(b) /\ Room(max)
        /\ state' = enter_block(state, theme, options, b)
        /\ open' = Append(open, Opened("block", b.type, state))
        /\ events' = Append(events, [event |-> "EnterBlock", detail |-> b])
        /\ UNCHANGED <<theme, options, phase>> /\ wrapIdle

DocEnterSpan(spanset, max) ==
    \E s \in spanset :
        /\ Parsing /\ CanEnterSpan(s) /\ Room(max)
        /\ state' = enter_span(state, theme, s)
        /\ open' = Append(open, Opened("span", s.type, state))
        /\ events' = Append(events, [event |-> "EnterSpan", detail |-> s])
        /\ UNCHANGED <<theme, options, phase>> /\ wrapIdle

DocText(texts, max) ==
    \E t \in texts :
        /\ Parsing /\ CanText /\ Len(events) + Len(open) + 1 <= max
        /\ state' = text(state, theme, options, t.type, t.content)
        /\ events' = Append(events, [event |-> "Text", detail |-> t])
        /\ UNCHANGED <<theme, options, phase, open>> /\ wrapIdle

DocLeaveBlock ==
    /\ Parsing /\ open # <<>> /\ Top.kind = "block" /\ CanLeaveBlock
    /\ state' = leave_block(state, theme, options, Top.type)
    /\ open' = Pop(open)
    /\ events' = Append(events, [event |-> "LeaveBlock", detail |-> Block(Top.type)])
    /\ phase' = IF Len(open) = 1 THEN "parsed" ELSE phase
    /\ UNCHANGED <<theme, options>> /\ wrapIdle

DocLeaveSpan ==
    /\ Parsing /\ open # <<>> /\ Top.kind = "span"
    /\ state' = leave_span(state, theme, Top.type)
    /\ open' = Pop(open)
    /\ events' = Append(events, [event |-> "LeaveSpan", detail |-> Span(Top.type)])
    /\ UNCHANGED <<theme, options, phase>> /\ wrapIdle

\* render(): after parse, the last finish_line and the return
Render ==
    /\ phase = "parsed" /\ state.fault = "none"
    /\ state' = finish_line(state, theme, options)
    /\ phase' = IF state'.fault = "none" THEN "done" ELSE phase
    /\ UNCHANGED <<theme, options, open, events>> /\ wrapIdle

\* events in any order, balanced or not; the log keeps their kinds
AnyEnterBlock(blocks, max) ==
    \E b \in blocks :
        /\ Parsing /\ Len(events) < max
        /\ state' = enter_block(state, theme, options, b)
        /\ events' = Append(events, [event |-> "EnterBlock"])
        /\ UNCHANGED <<theme, options, phase, open>> /\ wrapIdle

AnyLeaveBlock(max) ==
    \E bt \in BlockTypes :
        /\ Parsing /\ Len(events) < max
        /\ state' = leave_block(state, theme, options, bt)
        /\ events' = Append(events, [event |-> "LeaveBlock"])
        /\ UNCHANGED <<theme, options, phase, open>> /\ wrapIdle

AnyEnterSpan(spanset, max) ==
    \E s \in spanset :
        /\ Parsing /\ Len(events) < max
        /\ state' = enter_span(state, theme, s)
        /\ events' = Append(events, [event |-> "EnterSpan"])
        /\ UNCHANGED <<theme, options, phase, open>> /\ wrapIdle

AnyLeaveSpan(max) ==
    \E sty \in SpanTypes :
        /\ Parsing /\ Len(events) < max
        /\ state' = leave_span(state, theme, sty)
        /\ events' = Append(events, [event |-> "LeaveSpan"])
        /\ UNCHANGED <<theme, options, phase, open>> /\ wrapIdle

AnyText(texts, max) ==
    \E t \in texts :
        /\ Parsing /\ Len(events) < max
        /\ state' = text(state, theme, options, t.type, t.content)
        /\ events' = Append(events, [event |-> "Text"])
        /\ UNCHANGED <<theme, options, phase, open>> /\ wrapIdle

\* the parser returns; render() finishes the last line
AnyRender ==
    /\ Parsing
    /\ state' = finish_line(state, theme, options)
    /\ phase' = IF state'.fault = "none" THEN "done" ELSE phase
    /\ UNCHANGED <<theme, options, open, events>> /\ wrapIdle

\* the renderer before the first event
RenderInit(themes, opts) ==
    /\ theme \in themes
    /\ options \in opts
    /\ state = RendererNew(theme)
    /\ open = <<>>
    /\ events = <<>>
    /\ phase = "parse"
    /\ view = None
    /\ spans = <<>> /\ max_width = 0 /\ indent = 0
    /\ wrap = [WrapLocals(<<>>) EXCEPT !.pc = "idle"]

----------------------------------------------------------------------------
(* Documents: balanced event streams that follow the parser's nesting.     *)

Normal(content) == [type |-> "Normal", content |-> content]

DocBlocks ==
    {Block("Document"), Block("Paragraph"), Block("Quote"), Block("Html"),
     CodeBlock(<<>>)} \cup {Heading(l) : l \in 1..MaxLevel}

DocSpans ==
    {Span("Emphasis"), Span("Strong"), Span("Strikethrough"), Span("Underline"),
     Span("Code"), Span("LatexMath"), Span("LatexMathDisplay"),
     Link(<<"u">>, FALSE), Image(<<"u">>, <<>>), WikiLink(<<"u">>)}

DocTexts == {Normal(<<"a">>)}

DocOptions == {OptionsNew, OptionsDefault}

Themes == {ThemeOf(FALSE), ThemeOf(TRUE)}

Init == RenderInit(Themes, DocOptions)

EnterBlock == DocEnterBlock(DocBlocks, MaxDocEvents)
EnterSpan == DocEnterSpan(DocSpans, MaxDocEvents)
Text == DocText(DocTexts, MaxDocEvents)
LeaveBlock == DocLeaveBlock
LeaveSpan == DocLeaveSpan

Next ==
    \/ EnterBlock
    \/ EnterSpan
    \/ Text
    \/ LeaveBlock
    \/ LeaveSpan
    \/ Render

Spec == Init /\ [][Next]_vars

----------------------------------------------------------------------------
(* Arbitrary event sequences. *)

AnyBlocks ==
    {Block("Document"), Block("Paragraph"), Heading(1), Block("Quote"),
     CodeBlock(<<>>), Block("UnorderedList"), OrderedList(1),
     ListItem("NotTask"), ListItem("Checked"), Block("HorizontalRule"),
     Block("Html"), Table(1), Block("TableHead"), Block("TableBody"),
     Block("TableRow"), Cell("TableHeaderCell", "Default"),
     Cell("TableCell", "Left")}

AnyTexts == {[type |-> tt, content |-> <<"a">>] : tt \in TextTypes}

AnyInit == RenderInit(Themes, {OptionsNew})

AnyNext ==
    \/ AnyEnterBlock(AnyBlocks, MaxAnyEvents)
    \/ AnyLeaveBlock(MaxAnyEvents)
    \/ AnyEnterSpan(DocSpans, MaxAnyEvents)
    \/ AnyLeaveSpan(MaxAnyEvents)
    \/ AnyText(AnyTexts, MaxAnyEvents)
    \/ AnyRender

AnySpec == AnyInit /\ [][AnyNext]_vars

----------------------------------------------------------------------------
(* Documents of headings: their text, with content that starts with '#'   *)
(* or carries blanks.                                                      *)

MaxHeadEvents == 7 \* events of a document of headings

HeadBlocks == {Block("Document"), Heading(1), Heading(2)}
HeadSpans == {Span("Strong")}
HeadTexts == {Normal(<<"a">>), Normal(<<"#", "a">>), Normal(<<" ">>)}

HeadInit == RenderInit({ThemeOf(FALSE)}, {OptionsNew})

HeadNext ==
    \/ DocEnterBlock(HeadBlocks, MaxHeadEvents)
    \/ DocEnterSpan(HeadSpans, MaxHeadEvents)
    \/ DocText(HeadTexts, MaxHeadEvents)
    \/ DocLeaveBlock
    \/ DocLeaveSpan
    \/ Render

HeadSpec == HeadInit /\ [][HeadNext]_vars

----------------------------------------------------------------------------
(* Documents of paragraphs with links, rendered with and without          *)
(* wrapping.                                                               *)

MaxLinkEvents == 8 \* events of a document of links

\* the width of the wrapped rendering
LinkWidth == 2

Entity(content) == [type |-> "Entity", content |-> content]

LinkBlocks == {Block("Document"), Block("Paragraph")}
LinkSpans == {Link(<<"u">>, FALSE), Link(<<"v">>, TRUE), WikiLink(<<"w">>)}
LinkTexts == {Normal(<<"b">>), Normal(<<"a", "a", " ">>), Entity(<<"&">>)}
LinkOptions == {OptionsNew, WithWidth(OptionsNew, LinkWidth)}

LinkInit == RenderInit({ThemeOf(FALSE)}, LinkOptions)

LinkNext ==
    \/ DocEnterBlock(LinkBlocks, MaxLinkEvents)
    \/ DocEnterSpan(LinkSpans, MaxLinkEvents)
    \/ DocText(LinkTexts, MaxLinkEvents)
    \/ DocLeaveBlock
    \/ DocLeaveSpan
    \/ Render

LinkSpec == LinkInit /\ [][LinkNext]_vars

----------------------------------------------------------------------------
(* Searching: a line of runs is flushed under a search pattern.            *)

MaxSearchChars == 3 \* characters of a line of one run
MaxPairChars == 2   \* characters of each run of a line of two runs

SearchChars == {"a", "A", "b", "W", "Idot"}

SearchPatterns ==
    {<<"a">>, <<"A">>, <<"a", "a">>, <<"a", "A">>, <<"W", "a">>, <<"Idot">>}

\* the style of text inside an Emphasis span of a paragraph
Emphasised(th) == Patch(th.text, th.emphasis)

\* the styles of the runs: plain text, and text inside an Emphasis span
SearchStyles(th) == {th.text, Emphasised(th)}

\* the text of a run: at least one character, at most n
SearchStrs(n) == UNION {[1..k -> SearchChars] : k \in 1..n}

\* the lines push_text builds: one run, or a plain run and an emphasised
\* run side by side
SearchInputs(th) ==
    {<<Styled(s, sty)>> : s \in SearchStrs(MaxSearchChars), sty \in SearchStyles(th)}
    \cup {<<Styled(s, th.text), Styled(t, Emphasised(th))>> :
          s \in SearchStrs(MaxPairChars), t \in SearchStrs(MaxPairChars)}

\* a paragraph has delivered its text: the runs are in current_spans
SearchInit ==
    /\ theme = ThemeOf(FALSE)
    /\ options \in {WithSearch(OptionsNew, p) : p \in SearchPatterns}
    /\ spans \in SearchInputs(theme)
    /\ state = [RendererNew(theme) EXCEPT !.current_spans = spans]
    /\ open = <<>>
    /\ events = <<>>
    /\ phase = "parse"
    /\ view = None
    /\ max_width = 0 /\ indent = 0
    /\ wrap = [WrapLocals(<<>>) EXCEPT !.pc = "idle"]

\* the line is flushed: finish_line calls highlight_search
SearchFlush ==
    /\ Parsing
    /\ state' = finish_line(state, theme, options)
    /\ phase' = IF state'.fault = "none" THEN "done" ELSE "failed"
    /\ UNCHANGED <<theme, options, open, events>> /\ wrapIdle

SearchNext == SearchFlush

SearchSpec == SearchInit /\ [][SearchNext]_vars

----------------------------------------------------------------------------
(* Documents of tables.                                                    *)

MaxTableEvents == 21 \* events of a document of tables
MaxTableCols == 2    \* columns of a table

Alignments == {"Default", "Left", "Center", "Right"}

TableBlocks ==
    {Block("Document"), Block("TableHead"), Block("TableBody"), Block("TableRow")}
    \cup {Table(n) : n \in 1..MaxTableCols}
    \cup {Cell(t, a) : t \in CellTypes, a \in Alignments}

TableTexts == {Normal(<<"a">>), Normal(<<"a", "W", "a">>)}

TableInit == RenderInit({ThemeOf(FALSE)}, {OptionsNew})

\* a cell gets its text in one event
TableText == state.current_table_cell = <<>> /\ DocText(TableTexts, MaxTableEvents)

TableNext ==
    \/ DocEnterBlock(TableBlocks, MaxTableEvents)
    \/ TableText
    \/ DocLeaveBlock
    \/ Render

TableSpec == TableInit /\ [][TableNext]_vars

----------------------------------------------------------------------------
(* Tables as the callbacks accept them: a table of any number of rows, a   *)
(* row of any number of cells, whatever column_count says.                 *)

MaxRowEvents == 14 \* events of a document of such tables
MaxRowCells == 3   \* cells of a row

RowBlocks ==
    {Block("Document"), Block("TableHead"), Block("TableBody"), Block("TableRow"),
     Cell("TableHeaderCell", "Default"), Cell("TableCell", "Default")}
    \cup {Table(n) : n \in 1..MaxTableCols}

RowTexts == {Normal(<<"a">>)}

\* the nesting of the table blocks, without the count of rows and cells
CanEnterRowBlock(b) ==
    CASE b.type = "Document" -> open = <<>> /\ events = <<>>
      [] b.type = "Table" -> TopIsBlock({"Document"})
      [] b.type \in {"TableHead", "TableBody"} -> TopIsBlock({"Table"})
      [] b.type = "TableRow" -> TopIsBlock({"TableHead", "TableBody"})
      [] b.type = "TableHeaderCell" ->
            TopIsBlock({"TableRow"}) /\ open[Len(open) - 1].type = "TableHead"
                /\ CellsInRow < MaxRowCells
      [] b.type = "TableCell" ->
            TopIsBlock({"TableRow"}) /\ open[Len(open) - 1].type = "TableBody"
                /\ CellsInRow < MaxRowCells

RowEnterBlock ==
    \E b \in RowBlocks :
        /\ Parsing /\ CanEnterRowBlock(b) /\ Room(MaxRowEvents)
        /\ state' = enter_block(state, theme, options, b)
        /\ open' = Append(open, Opened("block", b.type, state))
        /\ events' = Append(events, [event |-> "EnterBlock", detail |-> b])
        /\ UNCHANGED <<theme, options, phase>> /\ wrapIdle

RowText == state.current_table_cell = <<>> /\ DocText(RowTexts, MaxRowEvents)

RowLeaveBlock ==
    /\ Parsing /\ open # <<>> /\ Top.kind = "block"
    /\ state' = leave_block(state, theme, options, Top.type)
    /\ open' = Pop(open)
    /\ events' = Append(events, [event |-> "LeaveBlock", detail |-> Block(Top.type)])
    /\ phase' = IF Len(open) = 1 THEN "parsed" ELSE phase
    /\ UNCHANGED <<theme, options>> /\ wrapIdle

RowInit == RenderInit({ThemeOf(FALSE)}, {OptionsNew})

RowNext ==
    \/ RowEnterBlock
    \/ RowText
    \/ RowLeaveBlock
    \/ Render

RowSpec == RowInit /\ [][RowNext]_vars

----------------------------------------------------------------------------
(* MarkdownView: the view keeps its content, theme and options and caches  *)
(* the rendering of the three. The scanning of the markdown text is md4c's *)
(* work; here a content is the sequence of events md4c delivers for it.    *)

U16Max == 65535

Ev(event, detail) == [event |-> event, detail |-> detail]

\* "# a" and a paragraph with a link
HeadingAndLink ==
    <<Ev("EnterBlock", Block("Document")),
      Ev("EnterBlock", Heading(1)), Ev("Text", Normal(<<"a">>)),
      Ev("LeaveBlock", Block("Heading")),
      Ev("EnterBlock", Block("Paragraph")),
      Ev("EnterSpan", Link(<<"u">>, FALSE)), Ev("Text", Normal(<<"b">>)),
      Ev("LeaveSpan", Span("Link")),
      Ev("LeaveBlock", Block("Paragraph")),
      Ev("LeaveBlock", Block("Document"))>>

\* two paragraphs, a link in each
TwoLinks ==
    <<Ev("EnterBlock", Block("Document")),
      Ev("EnterBlock", Block("Paragraph")),
      Ev("EnterSpan", Link(<<"u">>, FALSE)), Ev("Text", Normal(<<"a">>)),
      Ev("LeaveSpan", Span("Link")),
      Ev("LeaveBlock", Block("Paragraph")),
      Ev("EnterBlock", Block("Paragraph")),
      Ev("EnterSpan", Link(<<"v">>, FALSE)), Ev("Text", Normal(<<"a", "b">>)),
      Ev("LeaveSpan", Span("Link")),
      Ev("LeaveBlock", Block("Paragraph")),
      Ev("LeaveBlock", Block("Document"))>>

\* the empty text
EmptyDocument ==
    <<Ev("EnterBlock", Block("Document")), Ev("LeaveBlock", Block("Document"))>>

ViewContents == {HeadingAndLink, TwoLinks, EmptyDocument}

ViewOptions == {OptionsNew, OptionsDefault}

ViewPatterns == {<<"a">>, <<"b">>}

MaxScroll == 3 \* largest offset and step of the scrolling operations
MaxIndex == 2  \* largest index of a heading or a match asked for

\* one callback of the parser
Deliver(st, th, op, e) ==
    CASE e.event = "EnterBlock" -> enter_block(st, th, op, e.detail)
      [] e.event = "LeaveBlock" -> leave_block(st, th, op, e.detail.type)
      [] e.event = "EnterSpan" -> enter_span(st, th, e.detail)
      [] e.event = "LeaveSpan" -> leave_span(st, th, e.detail.type)
      [] OTHER -> text(st, th, op, e.detail.type, e.detail.content)

RECURSIVE parse(_, _, _, _)
\* parse: the callbacks in the order of the events
parse(markdown, st, th, op) ==
    IF markdown = <<>> \/ st.fault # "none" THEN st
    ELSE parse(Tail(markdown), Deliver(st, th, op, Head(markdown)), th, op)

\* the RenderedMarkdown render builds from its RendererState
RenderedMarkdown(st) ==
    [text |-> st.lines,
     links |-> st.links,
     headings |-> st.headings,
     line_count |-> Len(st.lines),
     search_matches |-> st.search_matches]

\* render
render(markdown, th, op) ==
    RenderedMarkdown(finish_line(parse(markdown, RendererNew(th), th, op), th, op))

\* MarkdownView::new
MarkdownViewNew(content) ==
    [content |-> content,
     theme |-> ThemeOf(FALSE),
     options |-> OptionsDefault,
     rendered |-> None,
     scroll_offset |-> 0,
     selected_link |-> None]

\* MarkdownView::theme
view_theme(v, th) == [v EXCEPT !.theme = th, !.rendered = None]

\* MarkdownView::options
view_options(v, op) == [v EXCEPT !.options = op, !.rendered = None]

\* MarkdownView::set_content
set_content(v, content) ==
    [v EXCEPT !.content = content, !.rendered = None,
              !.scroll_offset = 0, !.selected_link = None]

\* MarkdownView::set_scroll
set_scroll(v, offset) == [v EXCEPT !.scroll_offset = offset]

\* MarkdownView::ensure_rendered
ensure_rendered(v) ==
    IF v.rendered = None
    THEN [v EXCEPT !.rendered = Some(render(v.content, v.theme, v.options))]
    ELSE v

\* `as u16`
AsU16(n) == n % (U16Max + 1)

Lesser(a, b) == IF a <= b THEN a ELSE b

\* the body of scroll_down behind ensure_rendered
ScrollDownIn(v, lines) ==
    [v EXCEPT !.scroll_offset =
        Lesser(Lesser(@ + lines, U16Max), AsU16(v.rendered[1].line_count))]

\* MarkdownView::scroll_down
scroll_down(v, lines) == ScrollDownIn(ensure_rendered(v), lines)

\* MarkdownView::scroll_up
scroll_up(v, lines) ==
    [v EXCEPT !.scroll_offset = IF @ >= lines THEN @ - lines ELSE 0]

\* MarkdownView::scroll_to_top
scroll_to_top(v) == [v EXCEPT !.scroll_offset = 0]

ScrollToBottomIn(v) ==
    [v EXCEPT !.scroll_offset =
        AsU16(IF v.rendered[1].line_count >= 1 THEN v.rendered[1].line_count - 1 ELSE 0)]

\* MarkdownView::scroll_to_bottom
scroll_to_bottom(v) == ScrollToBottomIn(ensure_rendered(v))

\* the scroll to the line of the record of this index, if there is one
ScrollToRecord(v, records, index) ==
    IF index < Len(records)
    THEN [v EXCEPT !.scroll_offset = AsU16(records[index + 1].line)]
    ELSE v

ScrollToHeadingIn(v, index) == ScrollToRecord(v, v.rendered[1].headings, index)

\* MarkdownView::scroll_to_heading
scroll_to_heading(v, index) == ScrollToHeadingIn(ensure_rendered(v), index)

\* link_count of the two selections
NumberOfLinks(v) == Len(v.rendered[1].links)

SelectNextLinkIn(v) ==
    IF NumberOfLinks(v) = 0 THEN v
    ELSE [v EXCEPT !.selected_link =
             Some(IF @ = None THEN 0 ELSE (@[1] + 1) % NumberOfLinks(v))]

\* MarkdownView::select_next_link
select_next_link(v) == SelectNextLinkIn(ensure_rendered(v))

SelectPrevLinkIn(v) ==
    IF NumberOfLinks(v) = 0 THEN v
    ELSE [v EXCEPT !.selected_link =
             Some(IF @ = None \/ @ = Some(0) THEN NumberOfLinks(v) - 1 ELSE @[1] - 1)]

\* MarkdownView::select_prev_link
select_prev_link(v) == SelectPrevLinkIn(ensure_rendered(v))

\* a slip: the pattern changes under the cached rendering
SetSearchKeepsCache(v, pattern) ==
    [v EXCEPT !.options = WithSearch(@, pattern)]

\* MarkdownView::set_search
set_search(v, pattern) ==
    [v EXCEPT !.options = WithSearch(@, pattern), !.rendered = None]

\* MarkdownView::clear_search
clear_search(v) ==
    [v EXCEPT !.options = [@ EXCEPT !.search_pattern = None], !.rendered = None]

\* a slip: the match on the current line counts as the next one
MatchesAtOrBehind(matches, current_line) ==
    {i \in 0..(Len(matches) - 1) : matches[i + 1].line >= current_line}

\* the indices, from 0, of the matches behind the line and before it
MatchesBehind(matches, current_line) ==
    {i \in 0..(Len(matches) - 1) : matches[i + 1].line > current_line}
MatchesBefore(matches, current_line) ==
    {i \in 0..(Len(matches) - 1) : matches[i + 1].line < current_line}

Least(S) == CHOOSE x \in S : \A y \in S : x <= y

ScrollToNextMatchIn(v, matches) ==
    IF matches = <<>> THEN v
    ELSE IF MatchesBehind(matches, v.scroll_offset) # {}
    THEN ScrollToRecord(v, matches, Least(MatchesBehind(matches, v.scroll_offset)))
    ELSE ScrollToRecord(v, matches, 0)

\* the matches of the rendering
FoundMatches(v) == v.rendered[1].search_matches

ScrollToNextMatchOf(v) == ScrollToNextMatchIn(v, FoundMatches(v))

\* MarkdownView::scroll_to_next_match
scroll_to_next_match(v) == ScrollToNextMatchOf(ensure_rendered(v))

ScrollToPrevMatchIn(v, matches) ==
    IF matches = <<>> THEN v
    ELSE IF MatchesBefore(matches, v.scroll_offset) # {}
    THEN ScrollToRecord(v, matches, Max(MatchesBefore(matches, v.scroll_offset)))
    ELSE ScrollToRecord(v, matches, Len(matches) - 1)

ScrollToPrevMatchOf(v) == ScrollToPrevMatchIn(v, FoundMatches(v))

\* MarkdownView::scroll_to_prev_match
scroll_to_prev_match(v) == ScrollToPrevMatchOf(ensure_rendered(v))

ScrollToMatchIn(v, index) == ScrollToRecord(v, v.rendered[1].search_matches, index)

\* MarkdownView::scroll_to_match
scroll_to_match(v, index) == ScrollToMatchIn(ensure_rendered(v), index)

viewIdle ==
    UNCHANGED <<spans, max_width, indent, wrap, theme, options, state, open,
                events, phase>>

ViewInit ==
    /\ view \in {MarkdownViewNew(c) : c \in ViewContents}
    /\ theme = ThemeOf(FALSE)
    /\ options = OptionsNew
    /\ state = RendererNew(theme)
    /\ open = <<>>
    /\ events = <<>>
    /\ phase = "idle"
    /\ spans = <<>> /\ max_width = 0 /\ indent = 0
    /\ wrap = [WrapLocals(<<>>) EXCEPT !.pc = "idle"]

ViewTheme == \E th \in Themes : view' = view_theme(view, th) /\ viewIdle

ViewSetOptions == \E op \in ViewOptions : view' = view_options(view, op) /\ viewIdle

ViewSetContent == \E c \in ViewContents : view' = set_content(view, c) /\ viewIdle

ViewSetScroll == \E n \in 0..MaxScroll : view' = set_scroll(view, n) /\ viewIdle

ViewScrollDown == \E n \in 1..MaxScroll : view' = scroll_down(view, n) /\ viewIdle

ViewScrollUp == \E n \in 1..MaxScroll : view' = scroll_up(view, n) /\ viewIdle

ViewScrollToTop == view' = scroll_to_top(view) /\ viewIdle

ViewScrollToBottom == view' = scroll_to_bottom(view) /\ viewIdle

ViewScrollToHeading ==
    \E i \in 0..MaxIndex : view' = scroll_to_heading(view, i) /\ viewIdle

\* headings, links, selected_link, line_count, text, widget, search_matches,
\* search_match_count: ensure_rendered and a read
ViewRead == view' = ensure_rendered(view) /\ viewIdle

ViewSelectNextLink == view' = select_next_link(view) /\ viewIdle

ViewSelectPrevLink == view' = select_prev_link(view) /\ viewIdle

ViewSetSearch == \E p \in ViewPatterns : view' = set_search(view, p) /\ viewIdle

ViewClearSearch == view' = clear_search(view) /\ viewIdle

ViewScrollToNextMatch == view' = scroll_to_next_match(view) /\ viewIdle

ViewScrollToPrevMatch == view' = scroll_to_prev_match(view) /\ viewIdle

ViewScrollToMatch ==
    \E i \in 0..MaxIndex : view' = scroll_to_match(view, i) /\ viewIdle

ViewNext ==
    \/ ViewTheme \/ ViewSetOptions \/ ViewSetContent \/ ViewSetScroll
    \/ ViewScrollDown \/ ViewScrollUp \/ ViewScrollToTop \/ ViewScrollToBottom
    \/ ViewScrollToHeading \/ ViewRead \/ ViewSelectNextLink \/ ViewSelectPrevLink
    \/ ViewSetSearch \/ ViewClearSearch \/ ViewScrollToNextMatch
    \/ ViewScrollToPrevMatch \/ ViewScrollToMatch

ViewSpec == ViewInit /\ [][ViewNext]_vars

----------------------------------------------------------------------------
(* Headings of every level a u8 can hold, the levels 1..6 of md4c and the  *)
(* levels outside them.                                                    *)

MaxAnyLevel == 8     \* largest heading level of these documents
MaxLevelEvents == 6  \* events of a document of such headings

LevelBlocks == {Block("Document")} \cup {Heading(l) : l \in 0..MaxAnyLevel}

LevelTexts == {Normal(<<"a">>)}

LevelInit == RenderInit(Themes, {OptionsNew})

LevelNext ==
    \/ DocEnterBlock(LevelBlocks, MaxLevelEvents)
    \/ DocText(LevelTexts, MaxLevelEvents)
    \/ DocLeaveBlock
    \/ Render

LevelSpec == LevelInit /\ [][LevelNext]_vars

----------------------------------------------------------------------------
(* Texts of every kind in a table cell and in a code block.                *)

MaxKindEvents == 11 \* events of a document of a table or a code block
MaxKindTexts == 2   \* Text events of such a document

KindBlocks ==
    {Block("Document"), CodeBlock(<<>>), Table(1), Block("TableHead"),
     Block("TableRow"), Cell("TableHeaderCell", "Default")}

\* one text of every TextType; a break carries the line end
KindTexts ==
    {[type |-> t,
      content |-> IF t \in {"HardBreak", "SoftBreak"} THEN <<"\n">> ELSE <<"a">>] :
        t \in TextTypes}

TextsSoFar == Cardinality({i \in 1..Len(events) : events[i].event = "Text"})

KindInit == RenderInit({ThemeOf(FALSE)}, {OptionsNew})

KindText == TextsSoFar < MaxKindTexts /\ DocText(KindTexts, MaxKindEvents)

KindNext ==
    \/ DocEnterBlock(KindBlocks, MaxKindEvents)
    \/ KindText
    \/ DocLeaveBlock
    \/ Render

KindSpec == KindInit /\ [][KindNext]_vars

----------------------------------------------------------------------------
(* Documents of ordered lists, their items of one paragraph or more, lists *)
(* nested in items.                                                        *)

MaxListEvents == 14 \* events of a document of lists
MaxStart == 9       \* largest declared start of an ordered list
MaxListDepth == 2   \* lists open at a time

ListBlocks ==
    {Block("Document"), Block("Paragraph"), OrderedList(1), OrderedList(MaxStart),
     ListItem("NotTask"), ListItem("Checked")}

ListTexts == {Normal(<<"a">>)}

ListInit == RenderInit({ThemeOf(FALSE)}, {OptionsNew})

\* the lists that are open
OpenLists == {i \in 1..Len(open) : open[i].type \in {"OrderedList", "UnorderedList"}}

\* a document of lists: the lists are in the document and in the items,
\* the paragraphs in the items
CanEnterListBlock(b) ==
    CASE b.type = "Document" -> open = <<>> /\ events = <<>>
      [] b.type = "ListItem" -> TopIsBlock({"OrderedList"})
      [] b.type = "Paragraph" -> TopIsBlock({"ListItem"})
      [] OTHER ->
            TopIsBlock({"Document", "ListItem"})
                /\ Cardinality(OpenLists) < MaxListDepth

ListEnterBlock ==
    \E b \in ListBlocks :
        /\ Parsing /\ CanEnterListBlock(b) /\ Room(MaxListEvents)
        /\ state' = enter_block(state, theme, options, b)
        /\ open' = Append(open, Opened("block", b.type, state))
        /\ events' = Append(events, [event |-> "EnterBlock", detail |-> b])
        /\ UNCHANGED <<theme, options, phase>> /\ wrapIdle

\* a paragraph gets its text in one event
ListText ==
    /\ events # <<>> /\ events[Len(events)].event = "EnterBlock"
    /\ TopIsBlock({"Paragraph"})
    /\ DocText(ListTexts, MaxListEvents)

ListNext ==
    \/ ListEnterBlock
    \/ ListText
    \/ DocLeaveBlock
    \/ Render

ListSpec == ListInit /\ [][ListNext]_vars

----------------------------------------------------------------------------
(* Paragraphs with hard breaks, in the document, in quotes and in the      *)
(* items of lists, without wrapping and with it.                           *)

MaxBreakEvents == 11 \* events of a document with hard breaks
BreakWidth == 2      \* the width of the wrapped documents

BreakBlocks ==
    {Block("Document"), Block("Paragraph"), Block("Quote"),
     Block("UnorderedList"), ListItem("NotTask")}

BreakTexts == {Normal(<<"a">>), [type |-> "HardBreak", content |-> <<"\n">>]}

BreakOptions == {OptionsNew, WithWidth(OptionsNew, BreakWidth)}

BreakInit == RenderInit({ThemeOf(FALSE)}, BreakOptions)

\* a text is in a paragraph
BreakText == TopIsBlock({"Paragraph"}) /\ DocText(BreakTexts, MaxBreakEvents)

BreakNext ==
    \/ DocEnterBlock(BreakBlocks, MaxBreakEvents)
    \/ BreakText
    \/ DocLeaveBlock
    \/ Render

BreakSpec == BreakInit /\ [][BreakNext]_vars

----------------------------------------------------------------------------
(* Lists of one level whose items hold their text directly (tight) or in   *)
(* paragraphs (loose), with and without a task state.                      *)

MaxItemEvents == 11 \* events of a document of items

ItemBlocks ==
    {Block("Document"), Block("Paragraph"), Block("UnorderedList"),
     OrderedList(1), ListItem("NotTask"), ListItem("Checked")}

ItemTexts == {Normal(<<"a">>)}

\* a list is a child of the document, a paragraph a child of an item
CanEnterItemBlock(b) ==
    /\ CanEnterBlock(b)
    /\ b.type \in {"UnorderedList", "OrderedList"} => TopIsBlock({"Document"})
    /\ b.type = "Paragraph" => TopIsBlock({"ListItem"})

ItemEnterBlock ==
    \E b \in ItemBlocks :
        /\ Parsing /\ CanEnterItemBlock(b) /\ Room(MaxItemEvents)
        /\ state' = enter_block(state, theme, options, b)
        /\ open' = Append(open, Opened("block", b.type, state))
        /\ events' = Append(events, [event |-> "EnterBlock", detail |-> b])
        /\ UNCHANGED <<theme, options, phase>> /\ wrapIdle

ItemInit == RenderInit({ThemeOf(FALSE)}, {OptionsNew})

ItemNext ==
    \/ ItemEnterBlock
    \/ DocText(ItemTexts, MaxItemEvents)
    \/ DocLeaveBlock
    \/ Render

ItemSpec == ItemInit /\ [][ItemNext]_vars

----------------------------------------------------------------------------
(* Walking the search matches of a view: documents of paragraphs with no,  *)
(* one or two matches each; the log keeps the calls of                     *)
(* scroll_to_next_match since the last other operation.                    *)

MaxParagraphs == 3 \* paragraphs of a searched document
MaxCalls == 3      \* logged calls of scroll_to_next_match

\* the texts of a paragraph: one match of "a", none, two
MatchTexts == {<<"a">>, <<"b">>, <<"a", "a">>}

\* the events of a document of one paragraph for each text
RECURSIVE ParagraphEvents(_)
ParagraphEvents(texts) ==
    IF texts = <<>> THEN <<>>
    ELSE <<Ev("EnterBlock", Block("Paragraph")), Ev("Text", Normal(Head(texts))),
           Ev("LeaveBlock", Block("Paragraph"))>> \o ParagraphEvents(Tail(texts))

ParagraphsOf(texts) ==
    <<Ev("EnterBlock", Block("Document"))>> \o ParagraphEvents(texts)
        \o <<Ev("LeaveBlock", Block("Document"))>>

MatchContents ==
    {ParagraphsOf(texts) : texts \in [1..MaxParagraphs -> MatchTexts]}

matchIdle ==
    UNCHANGED <<spans, max_width, indent, wrap, theme, options, state, open, phase>>

\* the value scroll_to_next_match returns
NextMatchReturned(matches, current_line) ==
    IF matches = <<>> THEN None
    ELSE IF MatchesBehind(matches, current_line) # {}
    THEN Some(Least(MatchesBehind(matches, current_line)))
    ELSE Some(0)

ScrollToNextMatchReturns(v) == NextMatchReturned(FoundMatches(v), v.scroll_offset)

\* the record of a call: the value returned, the offset before and after
Called(returned, from, to) ==
    [event |-> "scroll_to_next_match",
     detail |-> [returned |-> returned, from |-> from, to |-> to]]

MatchInit ==
    /\ view \in {MarkdownViewNew(c) : c \in MatchContents}
    /\ theme = ThemeOf(FALSE)
    /\ options = OptionsNew
    /\ state = RendererNew(theme)
    /\ open = <<>>
    /\ events = <<>>
    /\ phase = "idle"
    /\ spans = <<>> /\ max_width = 0 /\ indent = 0
    /\ wrap = [WrapLocals(<<>>) EXCEPT !.pc = "idle"]

MatchSetSearch ==
    /\ view' = set_search(view, <<"a">>)
    /\ events' = <<>>
    /\ matchIdle

MatchSetScroll ==
    \E n \in 0..MaxScroll :
        /\ view' = set_scroll(view, n)
        /\ events' = <<>>
        /\ matchIdle

MatchScrollToNext ==
    /\ Len(events) < MaxCalls
    /\ view' = scroll_to_next_match(view)
    /\ events' = Append(events, Called(ScrollToNextMatchReturns(ensure_rendered(view)),
                                       view.scroll_offset, view'.scroll_offset))
    /\ matchIdle

MatchNext ==
    \/ MatchSetSearch
    \/ MatchSetScroll
    \/ MatchScrollToNext

MatchSpec == MatchInit /\ [][MatchNext]_vars

----------------------------------------------------------------------------
(* Scrolling a view by steps: documents of one paragraph and more.         *)

ScrollContents ==
    {ParagraphsOf(texts) :
        texts \in UNION {[1..n -> MatchTexts] : n \in 1..MaxParagraphs}}

ScrollInit ==
    /\ view \in {MarkdownViewNew(c) : c \in ScrollContents}
    /\ theme = ThemeOf(FALSE)
    /\ options = OptionsNew
    /\ state = RendererNew(theme)
    /\ open = <<>>
    /\ events = <<>>
    /\ phase = "idle"
    /\ spans = <<>> /\ max_width = 0 /\ indent = 0
    /\ wrap = [WrapLocals(<<>>) EXCEPT !.pc = "idle"]

ScrollNext ==
    \/ ViewScrollDown
    \/ ViewScrollUp
    \/ ViewScrollToTop
    \/ ViewScrollToBottom

ScrollSpec == ScrollInit /\ [][ScrollNext]_vars

----------------------------------------------------------------------------
(* Jumping to the headings and matches of long documents: the rendering   *)
(* of a view is given by its records, on lines up to and beyond the        *)
(* largest 16-bit offset; the lines themselves are left out.               *)

MaxBeyond == 2 \* lines beyond the largest 16-bit offset

JumpLines == {0, 1, U16Max} \cup {U16Max + d : d \in 1..MaxBeyond}

\* the lines of the records of a document, in the order of the lines
JumpLists ==
    {<<>>} \cup {<<a>> : a \in JumpLines}
        \cup {<<p[1], p[2]>> : p \in {q \in JumpLines \X JumpLines : q[1] < q[2]}}

\* the rendering of a document with a heading and a match on these lines
LongRendering(hs, ms) ==
    [text |-> <<>>,
     links |-> <<>>,
     headings |-> [i \in DOMAIN hs |-> HeadingInfo(hs[i], 1, <<"a">>)],
     line_count |-> U16Max + MaxBeyond + 1,
     search_matches |-> [i \in DOMAIN ms |-> MatchRecords(ms[i], <<<<0, 1>>>>)[1]]]

\* a view that has rendered its document
LongView(hs, ms) ==
    [MarkdownViewNew(<<>>) EXCEPT !.rendered = Some(LongRendering(hs, ms))]

\* the record of a jump: the index asked for, the offset before and after
Jumped(op, index, from, to) ==
    [event |-> op, detail |-> [index |-> index, from |-> from, to |-> to]]

JumpInit ==
    /\ view \in {LongView(hs, ms) : hs \in JumpLists, ms \in JumpLists}
    /\ theme = ThemeOf(FALSE)
    /\ options = OptionsNew
    /\ state = RendererNew(theme)
    /\ open = <<>>
    /\ events = <<>>
    /\ phase = "idle"
    /\ spans = <<>> /\ max_width = 0 /\ indent = 0
    /\ wrap = [WrapLocals(<<>>) EXCEPT !.pc = "idle"]

JumpSetScroll ==
    \E n \in 0..MaxScroll :
        /\ view' = set_scroll(view, n)
        /\ events' = <<>>
        /\ matchIdle

JumpToHeading ==
    \E i \in 0..MaxIndex :
        /\ view' = scroll_to_heading(view, i)
        /\ events' = <<Jumped("scroll_to_heading", i, view.scroll_offset,
                              view'.scroll_offset)>>
        /\ matchIdle

JumpToMatch ==
    \E i \in 0..MaxIndex :
        /\ view' = scroll_to_match(view, i)
        /\ events' = <<Jumped("scroll_to_match", i, view.scroll_offset,
                              view'.scroll_offset)>>
        /\ matchIdle

JumpNext ==
    \/ JumpSetScroll
    \/ JumpToHeading
    \/ JumpToMatch

JumpSpec == JumpInit /\ [][JumpNext]_vars

----------------------------------------------------------------------------
(* wrap_line as a state machine. *)

renderIdle == UNCHANGED <<theme, options, state, open, events, phase, view>>

WrapInit ==
    /\ spans \in WrapInputs
    /\ max_width \in 0..MaxWidth
    /\ indent \in 0..MaxIndent
    /\ wrap = [WrapLocals(spans) EXCEPT !.pc = "start"]
    /\ theme = ThemeOf(FALSE)
    /\ options = OptionsNew
    /\ state = RendererNew(theme)
    /\ open = <<>>
    /\ events = <<>>
    /\ phase = "idle"
    /\ view = None

WrapEnter ==
    /\ wrap.pc = "start"
    /\ wrap' = IF max_width = 0 THEN WrapDisabled(spans) ELSE WrapLocals(spans)
    /\ UNCHANGED <<spans, max_width, indent>> /\ renderIdle

WrapNextSpan ==
    /\ wrap.pc = "for" /\ wrap.rest # <<>>
    /\ wrap' = StepNextSpan(wrap)
    /\ UNCHANGED <<spans, max_width, indent>> /\ renderIdle

WrapFits ==
    /\ wrap.pc = "while" /\ TakesFits(wrap, max_width)
    /\ wrap' = StepFits(wrap)
    /\ UNCHANGED <<spans, max_width, indent>> /\ renderIdle

WrapNewLine ==
    /\ wrap.pc = "while" /\ TakesNewLine(wrap, max_width)
    /\ Len(wrap.result) < MaxLines
    /\ wrap' = StepNewLine(wrap, indent)
    /\ UNCHANGED <<spans, max_width, indent>> /\ renderIdle

WrapSplit ==
    /\ wrap.pc = "while" /\ TakesSplit(wrap, max_width)
    /\ wrap' = StepSplit(wrap, max_width, indent)
    /\ UNCHANGED <<spans, max_width, indent>> /\ renderIdle

WrapReturn ==
    /\ wrap.pc = "for" /\ wrap.rest = <<>>
    /\ wrap' = StepReturn(wrap)
    /\ UNCHANGED <<spans, max_width, indent>> /\ renderIdle

WrapNext ==
    \/ WrapEnter
    \/ WrapNextSpan
    \/ WrapFits
    \/ WrapNewLine
    \/ WrapSplit
    \/ WrapReturn

WrapSpec == WrapInit /\ [][WrapNext]_vars

----------------------------------------------------------------------------
(* Properties of the style stack and of the headings list. *)

\* the depth of the style stack
Depth == Len(state.style_stack)

\* an open element whose Enter pushed a style
IsStyled(e) == e.kind = "span" \/ e.type \in StyledBlockTypes

\* the open elements below position i that pushed a style
StyledBelow(i) == Cardinality({j \in 1..(i - 1) : IsStyled(open[j])})

\* C1: in every sequence of events, balanced or not, the style stack holds
\* at least one element and its bottom element is the base text style of the
\* theme; a Leave of any block or span kind handled while the stack holds
\* only the base element leaves the stack as it is.
C1_StackKeepsBase ==
    /\ Depth >= 1
    /\ state.style_stack[1] = theme.text
    /\ Depth = 1 =>
          /\ \A bt \in BlockTypes :
                leave_block(state, theme, options, bt).style_stack
                    = state.style_stack
          /\ \A sty \in SpanTypes :
                leave_span(state, theme, sty).style_stack = state.style_stack

\* a LeaveSpan and then a LeaveBlock that pushes a blank line were handled
\* with nothing open, and the stack still holds the base style alone
C1_Witness ==
    /\ Len(events) = 2
    /\ events[1] = [event |-> "LeaveSpan"]
    /\ events[2] = [event |-> "LeaveBlock"]
    /\ state.style_stack = <<theme.text>>
    /\ state.lines = << <<>> >>
    /\ theme.show_link_urls

\* C2: in a balanced stream the Enter of a Heading, Quote, Code or Html block
\* and of every span pushes exactly one style, and its Leave pops exactly one:
\* the depth is 1 plus the number of open styled elements, the depth recorded
\* before the Enter of each open element is the depth its Leave restores, and
\* the depth is 1 once the document has closed, whether or not the theme
\* shows link URLs.
C2_PushPopPaired ==
    /\ Depth = 1 + StyledBelow(Len(open) + 1)
    /\ \A i \in 1..Len(open) : open[i].depth = 1 + StyledBelow(i)
    /\ phase \in {"parsed", "done"} => Depth = 1

\* a Link inside a Heading inside a Quote has closed, and the document with
\* it, under a theme that shows link URLs
C2_Witness ==
    /\ phase = "parsed"
    /\ theme.show_link_urls
    /\ Len(events) = 8
    /\ events[2] = [event |-> "EnterBlock", detail |-> Block("Quote")]
    /\ events[3] = [event |-> "EnterBlock", detail |-> Heading(1)]
    /\ events[4] = [event |-> "EnterSpan", detail |-> Link(<<"u">>, FALSE)]
    /\ events[5] = [event |-> "LeaveSpan", detail |-> Span("Link")]
    /\ Depth = 1

----------------------------------------------------------------------------
(* Properties of wrap_line. *)

\* wrap_line has returned from a call with wrapping enabled
Wrapped == wrap.pc = "done" /\ max_width > 0

\* the txt of the input line
InputText == LineText(spans)

\* the txt of output line i without the indentation run that opens every
\* line but the first
Body(i) ==
    IF i = 1 THEN LineText(wrap.result[1]) ELSE LineText(Tail(wrap.result[i]))

Bodies == [i \in 1..Len(wrap.result) |-> Body(i)]

RECURSIVE Flatten(_)
Flatten(ss) == IF ss = <<>> THEN <<>> ELSE Head(ss) \o Flatten(Tail(ss))

NoWhitespace(s) == \A i \in 1..Len(s) : ~IsWhitespace(s[i])
AllWhitespace(s) == \A i \in 1..Len(s) : IsWhitespace(s[i])
Narrow(s) == \A i \in 1..Len(s) : CharWidth(s[i]) = 1
NonWhitespace(s) == SelectSeq(s, LAMBDA c : ~IsWhitespace(c))

RECURSIVE Reproduces(_, _)
\* txt is the bodies in order, with nothing but blanks between one body
\* and the next
Reproduces(txt, bodies) ==
    LET b == Head(bodies)
        n == Len(b)
    IN  /\ n <= Len(txt)
        /\ SubSeq(txt, 1, n) = b
        /\ IF Len(bodies) = 1 THEN n = Len(txt)
           ELSE \E k \in 0..(Len(txt) - n) :
                    /\ AllWhitespace(SubSeq(txt, n + 1, n + k))
                    /\ Reproduces(SubSeq(txt, n + k + 1, Len(txt)), Tail(bodies))

\* every line but the first opens with the indentation run
IndentRuns ==
    Wrapped => \A i \in 2..Len(wrap.result) :
                   /\ wrap.result[i] # <<>>
                   /\ wrap.result[i][1] = Raw(Repeat(" ", indent))

\* the characters of the input consumed before the current pass
Consumed == Len(InputText) - Len(wrap.remaining) - Len(LineText(wrap.rest))

\* the maximal blank-free stretch of txt around the gap after offset p
WordAround(txt, p) ==
    LET lo == IF \E i \in 1..p : IsWhitespace(txt[i])
              THEN Max({i \in 1..p : IsWhitespace(txt[i])}) + 1 ELSE 1
        his == {i \in (p + 1)..Len(txt) : IsWhitespace(txt[i])}
        hi == IF his = {} THEN Len(txt)
              ELSE (CHOOSE i \in his : \A j \in his : i <= j) - 1
    IN  SubSeq(txt, lo, hi)

\* the gap after offset p lies inside a word
InsideWord(txt, p) ==
    /\ p >= 1 /\ p < Len(txt)
    /\ ~IsWhitespace(txt[p]) /\ ~IsWhitespace(txt[p + 1])

\* the offset in the input at which the pass about to run ends the line
BreakOffset ==
    IF TakesSplit(wrap, max_width)
    THEN Consumed + BreakAt(wrap.remaining, Available(max_width, wrap.current_width))
    ELSE Consumed

\* C3: wrap_line terminates: a pass of the break loop that consumes no
\* character of the remaining txt opens a line with room left, so the
\* pass after it consumes at least one character.
C3_EveryPassProgresses ==
    [][(wrap.pc = "while" /\ wrap'.pc = "while"
            /\ wrap'.remaining = wrap.remaining)
        => wrap'.current_width < max_width]_vars

\* C4: the output lines, without the indentation runs, are the input txt
\* with nothing but blanks at the break points removed; the non-blank
\* characters are kept, once each and in order.
C4_TextPreserved ==
    Wrapped =>
        /\ Reproduces(InputText, Bodies)
        /\ NonWhitespace(Flatten(Bodies)) = NonWhitespace(InputText)

C4_Witness ==
    /\ Wrapped
    /\ Len(wrap.result) >= 2
    /\ Len(Flatten(Bodies)) < Len(InputText)
    /\ Len(NonWhitespace(InputText)) >= 2

\* C5: for narrow (printable ASCII) txt and indent < max_width every
\* output line is at most max_width columns wide, indentation included,
\* unless it holds one blank-free token wider than max_width.
C5_LinesFit ==
    (Wrapped /\ indent < max_width /\ Narrow(InputText)) =>
        \A i \in 1..Len(wrap.result) :
            \/ LineWidth(wrap.result[i]) <= max_width
            \/ (NoWhitespace(Body(i)) /\ Width(Body(i)) > max_width)

C5_Witness ==
    /\ Wrapped /\ indent < max_width /\ Narrow(InputText)
    /\ indent > 0
    /\ Len(wrap.result) >= 2
    /\ \E i \in 2..Len(wrap.result) : LineWidth(wrap.result[i]) = max_width

\* C6: wrap_line ends a line inside a word only if the word alone is wider
\* than max_width.
C6_NoBreakInsideWord ==
    [][(wrap.pc = "while" /\ Len(wrap'.result) > Len(wrap.result)
            /\ InsideWord(InputText, BreakOffset))
        => Width(WordAround(InputText, BreakOffset)) > max_width]_vars

\* C7 as claimed: a blank-free token wider than max_width is emitted whole
\* on one line.
C7_TokenOnOneLine ==
    (Wrapped /\ NoWhitespace(InputText) /\ Width(InputText) > max_width) =>
        \E i \in 1..Len(wrap.result) : Body(i) = InputText

\* C7 as amended: when wrap_line returns for a blank-free token of narrow
\* characters wider than max_width, the token is split after the last
\* character that fits: the lines hold the token's characters in order and
\* none of them is wider than max_width.
C7_TokenSplit ==
    (Wrapped /\ NoWhitespace(InputText) /\ Narrow(InputText)
        /\ Width(InputText) > max_width) =>
        /\ Len(wrap.result) >= 2
        /\ Flatten(Bodies) = InputText
        /\ \A i \in 1..Len(wrap.result) : LineWidth(wrap.result[i]) <= max_width

C7_Witness ==
    /\ Wrapped /\ NoWhitespace(InputText) /\ Narrow(InputText)
    /\ Width(InputText) > max_width
    /\ max_width >= 2
    /\ Len(wrap.result) >= 2

\* C8: after the indentation, no continuation line starts with a blank.
C8_NoLeadingBlank ==
    Wrapped => \A i \in 2..Len(wrap.result) :
                   Body(i) = <<>> \/ ~IsWhitespace(Body(i)[1])

\* C9: wrapping each output line again at the same width gives one line
\* per line.
C9_Idempotent ==
    Wrapped => \A i \in 1..Len(wrap.result) :
                   Len(WrapLine(wrap.result[i], max_width, indent)) = 1
                       /\ WrapLine(wrap.result[i], max_width, indent) # Diverged

\* the Enter events of Heading blocks, and the number of their Leave events
HeadingEnters ==
    SelectSeq(events, LAMBDA e : e.event = "EnterBlock" /\ e.detail.type = "Heading")

HeadingLeaves ==
    Len(SelectSeq(events,
            LAMBDA e : e.event = "LeaveBlock" /\ e.detail.type = "Heading"))

\* the levels of the records of the headings list
HeadingLevels == [i \in 1..Len(state.headings) |-> state.headings[i].level]

\* C10: in a balanced stream the headings list holds one record for each
\* Heading block that has closed, in document order, each with the level of
\* the Enter event of its block; when the document has closed it holds one
\* record for every Heading block of the stream.
C10_HeadingsInOrder ==
    /\ HeadingLeaves <= Len(HeadingEnters)
    /\ HeadingLevels =
          [i \in 1..HeadingLeaves |-> HeadingEnters[i].detail.level]
    /\ phase \in {"parsed", "done"} => Len(state.headings) = Len(HeadingEnters)

\* a document of three headings of levels 1, 2 and 3 has been rendered
C10_Witness ==
    /\ phase = "done"
    /\ Len(HeadingEnters) = 3
    /\ HeadingLevels = <<1, 2, 3>>

\* a string without its leading and trailing whitespace
RECURSIVE TrimEnd(_)
TrimEnd(s) ==
    IF s # <<>> /\ IsWhitespace(s[Len(s)])
    THEN TrimEnd(SubSeq(s, 1, Len(s) - 1)) ELSE s

Trim(s) == TrimEnd(TrimStart(s))

\* the trimmed concatenation of the Text events of each closed Heading of
\* evs, in document order; cur is the text of the open heading, if any
RECURSIVE HeadingTextsFrom(_, _, _)
HeadingTextsFrom(evs, cur, acc) ==
    IF evs = <<>> THEN acc
    ELSE IF Head(evs).event = "EnterBlock" /\ Head(evs).detail.type = "Heading"
    THEN HeadingTextsFrom(Tail(evs), Some(<<>>), acc)
    ELSE IF Head(evs).event = "LeaveBlock" /\ Head(evs).detail.type = "Heading"
    THEN HeadingTextsFrom(Tail(evs), None, Append(acc, Trim(cur[1])))
    ELSE IF Head(evs).event = "Text" /\ cur # None
    THEN HeadingTextsFrom(Tail(evs), Some(cur[1] \o Head(evs).detail.content), acc)
    ELSE HeadingTextsFrom(Tail(evs), cur, acc)

\* C11: the text of every heading record is the concatenation of the
\* contents of the Text events delivered inside its heading, without the '#'
\* prefix that enter_block adds and trimmed of surrounding whitespace, also
\* when the content itself begins with '#'.
C11_HeadingText ==
    [i \in 1..Len(state.headings) |-> state.headings[i].text]
        = HeadingTextsFrom(events, None, <<>>)

\* the text that a Text event delivers
Delivered(t) ==
    CASE t.type = "SoftBreak" -> <<" ">>
      [] t.type = "NullChar" -> <<"?">>
      [] t.type = "HardBreak" -> <<>>
      [] OTHER -> t.content

\* the open spans, each with the text delivered inside it so far
AddText(stack, s) == [i \in 1..Len(stack) |-> [stack[i] EXCEPT !.text = @ \o s]]

\* the records that the spans of evs call for, in order: one for a Link
\* when it closes, one for a WikiLink when it opens
RECURSIVE SpanRecords(_, _, _)
SpanRecords(evs, stack, acc) ==
    IF evs = <<>> THEN acc
    ELSE LET e == Head(evs) IN
         CASE e.event = "EnterSpan" /\ e.detail.type = "WikiLink" ->
                SpanRecords(Tail(evs), Append(stack, [detail |-> e.detail, text |-> <<>>]),
                            Append(acc, [url |-> e.detail.target,
                                         text |-> e.detail.target,
                                         is_autolink |-> FALSE]))
           [] e.event = "EnterSpan" /\ e.detail.type # "WikiLink" ->
                SpanRecords(Tail(evs), Append(stack, [detail |-> e.detail, text |-> <<>>]), acc)
           [] e.event = "LeaveSpan" /\ e.detail.type = "Link" ->
                SpanRecords(Tail(evs), Pop(stack),
                            Append(acc, [url |-> LastOr(stack, 0).detail.href,
                                         text |-> LastOr(stack, 0).text,
                                         is_autolink |-> LastOr(stack, 0).detail.is_autolink]))
           [] e.event = "LeaveSpan" /\ e.detail.type # "Link" ->
                SpanRecords(Tail(evs), Pop(stack), acc)
           [] e.event = "Text" ->
                SpanRecords(Tail(evs), AddText(stack, Delivered(e.detail)), acc)
           [] OTHER -> SpanRecords(Tail(evs), stack, acc)

\* C12: after every prefix of a balanced event stream, the link records are
\* those of the Link spans closed so far, one per span, in closing order,
\* each with the href and the autolink flag of its span.
C12_OneRecordPerLink ==
    [i \in 1..Len(state.links) |->
        [url |-> state.links[i].url, is_autolink |-> state.links[i].is_autolink]]
    = [i \in 1..Len(SpanRecords(events, <<>>, <<>>)) |->
        [url |-> SpanRecords(events, <<>>, <<>>)[i].url,
         is_autolink |-> SpanRecords(events, <<>>, <<>>)[i].is_autolink]]

\* a Link span of evs opens while another Link span is open; n counts the
\* open Link spans
RECURSIVE LinkInLink(_, _)
LinkInLink(evs, n) ==
    IF evs = <<>> THEN FALSE
    ELSE IF Head(evs).event = "EnterSpan" /\ Head(evs).detail.type = "Link"
    THEN n > 0 \/ LinkInLink(Tail(evs), n + 1)
    ELSE IF Head(evs).event = "LeaveSpan" /\ Head(evs).detail.type = "Link"
    THEN LinkInLink(Tail(evs), n - 1)
    ELSE LinkInLink(Tail(evs), n)

\* C13: the display text of every link record is the concatenation of the
\* text delivered between the EnterSpan and the LeaveSpan of its Link span
\* (Normal and Entity text here), for links that are not nested in links.
C13_LinkTextIsDelivered ==
    ~LinkInLink(events, 0) =>
        [i \in 1..Len(state.links) |-> state.links[i].text]
        = [i \in 1..Len(SpanRecords(events, <<>>, <<>>)) |->
            SpanRecords(events, <<>>, <<>>)[i].text]

\* s occurs in t as a contiguous piece
Contains(t, s) ==
    \E i \in 0..(Len(t) - Len(s)) : SubSeq(t, i + 1, i + Len(s)) = s

\* a span of this type opens in the stream
HasSpan(type) ==
    \E i \in 1..Len(events) :
        events[i].event = "EnterSpan" /\ events[i].detail.type = type

\* a text of this type is delivered in the stream
HasText(type) ==
    \E i \in 1..Len(events) :
        events[i].event = "Text" /\ events[i].detail.type = type

\* the first character of s that is not whitespace, if any
FirstChar(s) == IF TrimStart(s) = <<>> THEN <<>> ELSE <<Head(TrimStart(s))>>

\* C14: in the returned document, the output line at index `line` of every
\* record of a Link span exists and is the line where the link appears: it
\* contains the first character of the link's display text, also when the
\* paragraph was wrapped into several physical lines (documents of Normal
\* text and Link spans).
C14_LinkLineHoldsText ==
    (phase = "done" /\ ~HasSpan("WikiLink") /\ ~HasText("Entity")) =>
        \A i \in 1..Len(state.links) :
            /\ state.links[i].line < Len(state.lines)
            /\ Contains(LineText(state.lines[state.links[i].line + 1]),
                        FirstChar(state.links[i].text))

\* the search pattern of the options
Pattern == options.search_pattern[1]

\* the places of s where a piece reads as pat when case is ignored
Occurrences(s, pat) ==
    {i \in 1..Len(s) :
        \E j \in i..Len(s) : ToLowercase(SubSeq(s, i, j)) = ToLowercase(pat)}

\* the last character of the occurrence at i
OccEnd(s, pat, i) ==
    CHOOSE j \in i..Len(s) : ToLowercase(SubSeq(s, i, j)) = ToLowercase(pat)

\* the occurrences taken from the left, each one after the end of the one
\* taken before it
Greedy(s, pat) ==
    CHOOSE S \in SUBSET Occurrences(s, pat) :
        /\ \A a \in S : \A b \in S : a < b => OccEnd(s, pat, a) < b
        /\ \A o \in Occurrences(s, pat) \ S :
              \E a \in S : a < o /\ o <= OccEnd(s, pat, a)

RECURSIVE Ascending(_)
Ascending(S) ==
    IF S = {} THEN <<>>
    ELSE <<CHOOSE m \in S : \A n \in S : m <= n>>
             \o Ascending(S \ {CHOOSE m \in S : \A n \in S : m <= n})

\* the matches of one run, as byte offsets behind the off bytes of the
\* runs before it
RunMatches(s, pat, off, places) ==
    [k \in 1..Len(places) |->
        [line |-> 0,
         start |-> off + ByteLen(SubSeq(s, 1, places[k] - 1)),
         end |-> off + ByteLen(SubSeq(s, 1, OccEnd(s, pat, places[k])))]]

RECURSIVE LineMatches(_, _, _)
LineMatches(runs, pat, off) ==
    IF runs = <<>> THEN <<>>
    ELSE RunMatches(Head(runs).content, pat, off,
                    Ascending(Greedy(Head(runs).content, pat)))
         \o LineMatches(Tail(runs), pat, off + ByteLen(Head(runs).content))

\* C15: the matches recorded for a flushed line are the greedy,
\* non-overlapping, case-insensitive occurrences of the pattern inside each
\* run, in increasing order, and only such occurrences are re-styled.
C15_GreedyMatches ==
    phase = "done" =>
        /\ state.search_matches = LineMatches(spans, Pattern, 0)
        /\ \A i \in 1..Len(state.lines[1]) :
              state.lines[1][i].style = options.search_highlight_style
                  => ToLowercase(state.lines[1][i].content) = ToLowercase(Pattern)

\* the character c occurs in the runs
HasChar(runs, c) ==
    \E i \in 1..Len(runs) : \E k \in 1..Len(runs[i].content) : runs[i].content[k] = c

\* lower-casing keeps the length of the line and of the pattern
CaseKeepsLength == ~HasChar(spans, "Idot") /\ ~HasChar(<<Raw(Pattern)>>, "Idot")

\* C16: the start and end of every recorded match are character offsets
\* into the text of the line: the characters of the line from start up to
\* end read as the pattern, also behind multi-byte characters.
C16_CharOffsets ==
    (phase = "done" /\ CaseKeepsLength) =>
        \A i \in 1..Len(state.search_matches) :
            /\ state.search_matches[i].end <= Len(LineText(spans))
            /\ ToLowercase(SubSeq(LineText(spans),
                                  state.search_matches[i].start + 1,
                                  state.search_matches[i].end))
                   = ToLowercase(Pattern)

\* the number of characters of the first k runs
RECURSIVE CharsOf(_, _)
CharsOf(runs, k) ==
    IF k = 0 THEN 0 ELSE Len(runs[k].content) + CharsOf(runs, k - 1)

\* the style of the input run that holds character n of the line
StyleAt(runs, n) ==
    runs[CHOOSE i \in 1..Len(runs) :
             CharsOf(runs, i - 1) < n /\ n <= CharsOf(runs, i)].style

\* C17: in the flushed line every run that holds a match carries the match
\* style merged over the style of the run it was cut from, and every other
\* run keeps that style unchanged.
C17_MatchStyleMerged ==
    (phase = "done" /\ CaseKeepsLength) =>
        \A k \in 1..Len(state.lines[1]) :
            state.lines[1][k].style =
                IF ToLowercase(state.lines[1][k].content) = ToLowercase(Pattern)
                THEN Patch(StyleAt(spans, CharsOf(state.lines[1], k)),
                           options.search_highlight_style)
                ELSE StyleAt(spans, CharsOf(state.lines[1], k))

\* C18: the flush under a search pattern completes without fault and only
\* splits runs: the text of the flushed line is the text of the runs given.
C18_OnlySplits ==
    /\ state.fault = "none"
    /\ phase = "done" => LineText(state.lines[1]) = LineText(spans)

\* the pieces of t between the characters sep
RECURSIVE SplitAt(_, _)
SplitAt(t, sep) ==
    IF \A i \in 1..Len(t) : t[i] # sep THEN <<t>>
    ELSE <<SubSeq(t, 1, (CHOOSE i \in 1..Len(t) :
                            t[i] = sep /\ \A j \in 1..(i - 1) : t[j] # sep) - 1)>>
         \o SplitAt(SubSeq(t, (CHOOSE i \in 1..Len(t) :
                                  t[i] = sep /\ \A j \in 1..(i - 1) : t[j] # sep) + 1,
                           Len(t)), sep)

\* a string without its first and its last character
Inner(t) == SubSeq(t, 2, Len(t) - 1)

\* a table is open, its rows are accumulated and it is about to be closed
TableReady ==
    Parsing /\ TopIsBlock({"Table"}) /\ state.table_rows # <<>>

\* the lines behind the first n lines
LinesBehind(n, lines) == SubSeq(lines, n + 1, Len(lines))

\* the lines render_table appends for the open table
TableLines == LinesBehind(Len(state.lines), render_table(state, theme).lines)

\* the segments of a border or separator line between its two end characters
SegmentsOf(ln, junction) == SplitAt(Inner(LineText(ln)), junction)

\* ln is a border line of these end and junction characters
IsBorder(ln, left, mid, right, columns) ==
    /\ LineText(ln)[1] = left
    /\ LineText(ln)[Len(LineText(ln))] = right
    /\ Len(SegmentsOf(ln, mid)) = columns
    /\ \A c \in 1..columns :
           \A k \in 1..Len(SegmentsOf(ln, mid)[c]) : SegmentsOf(ln, mid)[c][k] = "h"

\* the texts of the cells of a row line: its runs at the even places
CellsOfLine(ln) == [c \in 1..((Len(ln) - 1) \div 2) |-> Trim(ln[2 * c].content)]

\* ln is the line of this accumulated row
IsRow(ln, row) ==
    CellsOfLine(ln) = [c \in 1..Len(row) |-> LineText(row[c])]

\* seg is the separator marker of a column of this alignment
IsMarker(seg, align) ==
    /\ Len(seg) >= 2
    /\ (seg[1] = ":") = (align \in {"Left", "Center"})
    /\ (seg[Len(seg)] = ":") = (align \in {"Right", "Center"})
    /\ \A k \in 1..Len(seg) : seg[k] \in {":", "h"}
    /\ \A k \in 2..(Len(seg) - 1) : seg[k] = "h"

\* the separator line sep has one marker per column, as wide as the
\* segment of the border above it
IsSeparator(sep, top, columns) ==
    /\ LineText(sep)[1] = "lj"
    /\ LineText(sep)[Len(LineText(sep))] = "rj"
    /\ Len(SegmentsOf(sep, "x")) = columns
    /\ \A c \in 1..columns :
          /\ IsMarker(SegmentsOf(sep, "x")[c], HeaderAlignment(c))
          /\ Len(SegmentsOf(sep, "x")[c]) = Len(SegmentsOf(top, "tj")[c])

\* new holds the lines of a table of these rows
IsTable(new, rows, columns) ==
    /\ Len(new) = Len(rows) + 3
    /\ IsBorder(new[1], "tl", "tj", "tr", columns)
    /\ IsRow(new[2], rows[1])
    /\ IsSeparator(new[3], new[1], columns)
    /\ \A r \in 2..Len(rows) : IsRow(new[r + 2], rows[r])
    /\ IsBorder(new[Len(new)], "bl", "bj", "br", columns)

\* C19: for a table of R >= 1 accumulated rows render_table appends R + 3
\* lines: the top border, the header row, the header separator whose
\* marker of each column encodes the column's alignment and is as wide as
\* the border segment, the other rows in order, the bottom border.
C19_TableLines ==
    TableReady => IsTable(TableLines, state.table_rows, TableColumns)

\* a table of one centred column and two rows has been closed: its five
\* lines and the blank line behind the table
C19_Witness ==
    /\ Len(events) = 17
    /\ events[17] = [event |-> "LeaveBlock", detail |-> Block("Table")]
    /\ events[2] = [event |-> "EnterBlock", detail |-> Table(1)]
    /\ events[5] = [event |-> "EnterBlock", detail |-> Cell("TableHeaderCell", "Center")]
    /\ Len(state.lines) = 6
    /\ LineText(state.lines[3]) = <<"lj", ":", "h", "h", "h", ":", "rj">>
    /\ LineText(state.lines[5]) = <<"bl", "h", "h", "h", "h", "h", "br">>

\* the widths of the columns, read from a top border
WidthsOf(top) ==
    [c \in 1..Len(SegmentsOf(top, "tj")) |-> Len(SegmentsOf(top, "tj")[c]) - 2]

\* the widths of the columns of the open table
ObservedWidths == WidthsOf(TableLines[1])

\* the display widths of the cells of column c
CellWidthsOf(c) ==
    {Width(LineText(state.table_rows[r][c])) :
        r \in {r \in 1..Len(state.table_rows) : c <= Len(state.table_rows[r])}}

\* ws gives every column the width of its widest cell, and 3 if that is less
AreWidths(ws, columns) ==
    /\ Len(ws) = columns
    /\ \A c \in 1..columns :
          /\ ws[c] >= 3
          /\ \A w \in CellWidthsOf(c) : ws[c] >= w
          /\ ws[c] = 3 \/ ws[c] \in CellWidthsOf(c)

\* C20: the width render_table gives every column is the largest display
\* width of the column's cells, and 3 when that is less: it is at least 3,
\* at least the width of every cell, and it is 3 or the width of a cell.
C20_ColumnWidths ==
    TableReady => AreWidths(ObservedWidths, state.table_columns)

\* a table of two columns is about to be closed: one column is as wide as
\* its cell of width 4, the other has the least width
C20_Witness ==
    /\ TableReady
    /\ state.table_columns = 2
    /\ ObservedWidths = <<4, 3>>
    /\ CellWidthsOf(1) = {4}
    /\ CellWidthsOf(2) = {1}

\* the line of row r among the lines of a table: the separator follows
\* the first row
RowLineOf(new, r) == IF r = 1 THEN new[2] ELSE new[r + 2]

\* every row of fewer cells than columns has a line of one cell per column
ShortRowsPadded(new, rows, columns) ==
    \A r \in 1..Len(rows) :
        Len(rows[r]) < columns => Len(CellsOfLine(RowLineOf(new, r))) = columns

LongRowsCut(new, rows, columns) ==
    \A r \in 1..Len(rows) :
        Len(rows[r]) > columns =>
            CellsOfLine(RowLineOf(new, r)) = [c \in 1..columns |-> LineText(rows[r][c])]

IsPadded(padded, t, l, r) ==
    padded = Repeat(" ", l) \o t \o Repeat(" ", r)

\* the padding of a cell as the code places it: a centred cell has half of
\* the spaces, rounded down, on its left; a right-aligned cell has all of
\* them on its left; every other cell has all of them on its right
PaddedByAlign(padded, t, align) ==
    \E l \in 0..Len(padded) : \E r \in 0..Len(padded) :
        /\ IsPadded(padded, t, l, r)
        /\ CASE align = "Center" -> l = (l + r) \div 2
             [] align = "Right" -> r = 0
             [] OTHER -> r = (l + r)

\* the padding of a cell when Default counts as Center, and Left and Right
\* have their spaces on one side
PaddedDefaultCentred(padded, t, align) ==
    \E l \in 0..Len(padded) : \E r \in 0..Len(padded) :
        /\ IsPadded(padded, t, l, r)
        /\ CASE align \in {"Center", "Default"} -> l = (l + r) \div 2
             [] align = "Right" -> r = 0
             [] OTHER -> l = 0

\* every cell of every row line is padded as its column's alignment says
CellsPaddedByAlign(new, rows, alignments) ==
    \A r \in 1..Len(rows) : \A c \in 1..Len(rows[r]) :
        PaddedByAlign(RowLineOf(new, r)[2 * c].content, LineText(rows[r][c]),
                      AlignOf(alignments, c))

CellsPaddedDefaultCentred(new, rows, alignments) ==
    \A r \in 1..Len(rows) : \A c \in 1..Len(rows[r]) :
        PaddedDefaultCentred(RowLineOf(new, r)[2 * c].content, LineText(rows[r][c]),
                             AlignOf(alignments, c))

\* C23: in a row line the content of a cell is padded according to the
\* alignment of its column: a Center column has the spaces on both sides,
\* the odd one on the right; a Right column has them on the left only; a
\* Left column and a Default column have them on the right only.
C23_PaddingByAlignment ==
    TableReady => CellsPaddedByAlign(TableLines, state.table_rows, state.table_alignments)

\* C23 as stated: Default columns are padded like Center columns
C23_DefaultCentred ==
    TableReady =>
        CellsPaddedDefaultCentred(TableLines, state.table_rows, state.table_alignments)

\* a table of a centred and an undeclared column is about to be closed:
\* the cell of the centred column has a space on either side, the cell of
\* the other column has its two spaces on the right
C23_Witness ==
    /\ TableReady
    /\ state.table_alignments = <<"Center", "Default">>
    /\ Len(state.table_rows) = 1
    /\ TableLines[2][2].content = <<" ", "a", " ">>
    /\ TableLines[2][4].content = <<"a", " ", " ">>

\* the last callback handled was LeaveBlock(Table)
TableLeft ==
    /\ events # <<>>
    /\ events[Len(events)] = [event |-> "LeaveBlock", detail |-> Block("Table")]

Coherent(v) ==
    v.rendered # None => v.rendered = Some(render(v.content, v.theme, v.options))

\* a step that changes the content, the theme or the options of the view
\* leaves no cache behind
Discards(v, w) ==
    (w.content # v.content \/ w.theme # v.theme \/ w.options # v.options)
        => w.rendered = None

\* C25: whenever a view holds a cached rendering, it equals
\* render(content, theme, options) of the view's current content, theme
\* and options, and every operation that changes one of the three leaves
\* the view without a cache.
C25_CacheCoherent == [](Coherent(view)) /\ [][Discards(view, view')]_vars

\* a search has been set on a shown document and the view has been
\* rendered again: the cache holds the matches of the new pattern
C25_Witness ==
    /\ view.content = TwoLinks
    /\ view.options.search_pattern = Some(<<"b">>)
    /\ view.rendered # None
    /\ Len(view.rendered[1].search_matches) = 1
    /\ view.scroll_offset > 0

\* the options the documentation calls the defaults: every blank-line
\* option on, no wrapping, no search
AreDefaults(op) ==
    /\ op.heading_space /\ op.paragraph_space
    /\ op.code_block_space /\ op.list_space
    /\ op.width = 0
    /\ op.search_pattern = None

\* C26: RenderOptions::default() and RenderOptions::new() both have the
\* four blank-line options true, width 0 and no search pattern, and so
\* have the options of a view as MarkdownView::new builds it.
C26_DefaultOptions ==
    /\ AreDefaults(OptionsNew)
    /\ AreDefaults(OptionsDefault)
    /\ view = MarkdownViewNew(view.content) => AreDefaults(view.options)

\* a level brought into 1..6
Clamped(level) == IF level < 1 THEN 1 ELSE IF level > 6 THEN 6 ELSE level

\* the last callback handled was EnterBlock(Heading)
HeadingEntered ==
    /\ events # <<>>
    /\ events[Len(events)].event = "EnterBlock"
    /\ events[Len(events)].detail.type = "Heading"

\* C27: heading_style(level) is the style of the level clamped to 1..6:
\* the marker run of a heading of a level below 1 has the style of level
\* 1, that of a level above 6 the style of level 6.
C27_HeadingStyleClamped ==
    HeadingEntered =>
        state.current_spans[Len(state.current_spans)].style =
            theme.heading[Clamped(events[Len(events)].detail.level)]

\* the step is the callback of a Text event
TextDelivered ==
    /\ Len(events') = Len(events) + 1
    /\ events'[Len(events')].event = "Text"

\* C28: in table mode a Text event of any kind adds a run to the buffer of
\* the current cell and leaves the line buffer current_spans as it was.
C28_TextIntoCell ==
    [][(state.in_table /\ TextDelivered) =>
           /\ state'.current_spans = state.current_spans
           /\ Len(state'.current_table_cell) = Len(state.current_table_cell) + 1]_vars

BlockDepth(i) ==
    Cardinality({j \in 1..i : events[j].event = "EnterBlock"})
        - Cardinality({j \in 1..i : events[j].event = "LeaveBlock"})

\* the events that entered a list which is still open
OpenListEnters ==
    {i \in 1..Len(events) :
        /\ events[i].event = "EnterBlock"
        /\ events[i].detail.type \in {"OrderedList", "UnorderedList"}
        /\ \A j \in i..Len(events) : BlockDepth(j) >= BlockDepth(i)}

\* the items so far of the list entered by event i
ItemsOf(i) ==
    {j \in (i + 1)..Len(events) :
        /\ events[j].event = "EnterBlock"
        /\ events[j].detail.type = "ListItem"
        /\ BlockDepth(j) = BlockDepth(i) + 1}

\* the task mark of an item waits for the next paragraph: no paragraph has
\* been entered since the item, the paragraph of the last event apart
TaskPending ==
    \E j \in 1..(Len(events) - 1) :
        /\ events[j].event = "EnterBlock"
        /\ events[j].detail.type = "ListItem"
        /\ events[j].detail.task_state # "NotTask"
        /\ \A m \in (j + 1)..(Len(events) - 1) :
               events[m] # [event |-> "EnterBlock", detail |-> Block("Paragraph")]

\* a paragraph of an item of an ordered list has just been entered and no
\* task mark takes the place of its marker
ParagraphOfItem ==
    /\ Len(open) >= 3
    /\ events[Len(events)] = [event |-> "EnterBlock", detail |-> Block("Paragraph")]
    /\ open[Len(open) - 1].type = "ListItem"
    /\ open[Len(open) - 2].type = "OrderedList"
    /\ ~TaskPending

\* the marker of item k of a list of this start at this depth
OrdinalMarker(th, start, k, depth) ==
    Repeat(" ", (depth - 1) * th.list_indent) \o ToDigits(start + k - 1) \o <<".", " ">>

\* the marker run is the marker of the item's place in the list entered by event i
MarkerOfList(run, i) ==
    run.content = OrdinalMarker(theme, events[i].detail.start,
                                Cardinality(ItemsOf(i)), Cardinality(OpenListEnters))

ListStacksAgree(st) ==
    /\ st.list_depth = Len(st.list_counters)
    /\ st.list_depth = Len(st.list_is_ordered)
    /\ st.in_list <=> st.list_depth > 0

\* C31: after every event of any sequence, balanced or not, list_depth is
\* the length of list_counters and of list_is_ordered and in_list holds
\* exactly when list_depth > 0; a LeaveBlock of a list handled at depth 0
\* returns and leaves the depth at 0.
C31_ListStacks ==
    /\ ListStacksAgree(state)
    /\ state.list_depth = 0 =>
          \A bt \in {"UnorderedList", "OrderedList"} :
              /\ leave_block(state, theme, options, bt).list_depth = 0
              /\ leave_block(state, theme, options, bt).fault = state.fault
              /\ ListStacksAgree(leave_block(state, theme, options, bt))

\* an ordered list has been entered in an unordered list with no item
\* between them: depth 2
C31_Witness ==
    /\ Len(events) = 2
    /\ state.list_depth = 2
    /\ state.list_is_ordered = <<FALSE, TRUE>>
    /\ state.list_counters = <<1, 1>>
    /\ state.in_list

\* a HardBreak text is delivered outside code-block and table mode
HardBreakDelivered ==
    /\ TextDelivered
    /\ events'[Len(events')].detail.type = "HardBreak"
    /\ ~state.in_code_block /\ ~state.in_table

\* the buffer a hard break leaves: the indent of the open lists
BufferAfterBreak(st) ==
    IF st.in_list /\ st.list_depth > 0
    THEN <<Raw(Repeat(" ", st.list_depth * theme.list_indent))>>
    ELSE <<>>

\* C32: a Text(HardBreak) outside code-block and table mode returns, keeps
\* the lines there were, adds lines exactly when the buffer held runs,
\* none of them empty, and leaves the buffer empty outside a list and with
\* one run of list_depth * list_indent spaces inside one.
C32_HardBreakFlushes ==
    [][HardBreakDelivered =>
           /\ state'.fault = "none"
           /\ Len(state'.lines) >= Len(state.lines)
           /\ SubSeq(state'.lines, 1, Len(state.lines)) = state.lines
           /\ (state.current_spans = <<>>) <=> (Len(state'.lines) = Len(state.lines))
           /\ \A i \in DOMAIN LinesBehind(Len(state.lines), state'.lines) :
                  LinesBehind(Len(state.lines), state'.lines)[i] # <<>>
           /\ options.width = 0 /\ state.current_spans # <<>> =>
                  LinesBehind(Len(state.lines), state'.lines)
                      = <<Prefixed(state, theme)>>
           /\ state'.current_spans = BufferAfterBreak(state)]_vars

\* a hard break in a list item flushed the marker and the text before it
C32_Witness ==
    /\ Len(events) = 6
    /\ events[6].event = "Text" /\ events[6].detail.type = "HardBreak"
    /\ events[5].event = "Text" /\ events[5].detail.type = "Normal"
    /\ state.in_list /\ state.list_depth = 1 /\ ~state.in_blockquote
    /\ Len(state.lines) = 1 /\ LineText(state.lines[1]) = <<"*", " ", "a">>
    /\ state.current_spans = <<Raw(<<" ", " ">>)>>
    /\ state.fault = "none"

\* the line indices of the heading, link and search-match records
RecordLines(st) ==
    {st.headings[i].line : i \in DOMAIN st.headings}
        \cup {st.links[i].line : i \in DOMAIN st.links}
        \cup {st.search_matches[i].line : i \in DOMAIN st.search_matches}

\* C33: in the document render returns for a balanced stream of events,
\* every heading record, link record and search-match record has
\* line < line_count.
C33_RecordsIndexLines ==
    phase = "done" => \A l \in RecordLines(state) : l < Len(state.lines)

\* a Quote block is open
QuoteOpen == \E i \in DOMAIN open : open[i].kind = "block" /\ open[i].type = "Quote"

\* the run finish_line_with_wrap puts in front of a line of a quote
PrefixRun == Styled(theme.blockquote_prefix, theme.blockquote_marker)

\* the lines the step adds, which are not empty, start with the prefix run
NewLinesPrefixed ==
    \A i \in DOMAIN LinesBehind(Len(state.lines), state'.lines) :
        LinesBehind(Len(state.lines), state'.lines)[i] # <<>> =>
            LinesBehind(Len(state.lines), state'.lines)[i][1] = PrefixRun

\* C34: every non-empty line flushed from the line buffer while a Quote
\* block is open starts with the blockquote prefix run, also after a
\* nested quote has closed.
C34_QuoteLinesPrefixed ==
    [][(/\ QuoteOpen /\ ~state.in_code_block /\ ~state.in_table
        /\ Len(events') = Len(events) + 1) => NewLinesPrefixed]_vars

\* a list item is open
InItem == \E i \in DOMAIN open : open[i].kind = "block" /\ open[i].type = "ListItem"

\* the event that entered the last item
LastItemEnter ==
    Max({0} \cup {i \in 1..Len(events) :
                     events[i].event = "EnterBlock" /\ events[i].detail.type = "ListItem"})

\* the texts delivered since the last item was entered
TextsOfItem == {j \in (LastItemEnter + 1)..Len(events) : events[j].event = "Text"}

\* a run in one of the marker styles
InMarkerStyle(run) == run.style \in {theme.list_bullet, theme.list_number}

\* the runs start with a marker and hold no other marker
MarkerFirst(runs) ==
    /\ Len(runs) >= 2
    /\ InMarkerStyle(runs[1])
    /\ \A i \in 2..Len(runs) : ~InMarkerStyle(runs[i])

\* a paragraph is entered
ParagraphEntered ==
    /\ Len(events') = Len(events) + 1
    /\ events'[Len(events')] = [event |-> "EnterBlock", detail |-> Block("Paragraph")]

\* C35: the first text of a list item, in a paragraph or not, stands in
\* the line buffer behind the item's marker, and a paragraph entered in an
\* item that has text already adds no marker.
C35_MarkerOncePerItem ==
    [][/\ (InItem /\ TextDelivered /\ TextsOfItem = {}) =>
              MarkerFirst(state'.current_spans)
       /\ (InItem /\ ParagraphEntered /\ TextsOfItem # {}) =>
              state'.current_spans = state.current_spans]_vars

\* C36: a pending task state belongs to the list item that is open: it is
\* the task state of the last item entered and that item has not closed.
C36_TaskStateOfOpenItem ==
    state.current_task_state # None =>
        /\ InItem
        /\ events[LastItemEnter].detail.task_state = state.current_task_state[1]

\* every padded cell of a row of exactly columns cells is as wide on the
\* display as its column
CellsFillColumns(new, rows, columns, widths) ==
    \A r \in 1..Len(rows) :
        Len(rows[r]) = columns =>
            \A c \in 1..columns :
                Width(RowLineOf(new, r)[2 * c].content) = widths[c]

\* C37: in the lines of a table whose rows have exactly column_count
\* cells, every padded cell has the display width of its column, cells
\* with double-width characters included.
C37_CellsFillColumns ==
    TableReady =>
        CellsFillColumns(TableLines, state.table_rows, TableColumns,
                         ColWidths(state.table_rows, state.table_columns))

\* the lines that hold a match
MatchLines(matches) == {matches[i].line : i \in DOMAIN matches}

\* a logged call returned the index of a match on the line it scrolled to,
\* or nothing, without moving, when there is no match
ReturnedTheMatch(call, matches) ==
    /\ (call.returned = None) <=> (matches = <<>>)
    /\ matches = <<>> => call.to = call.from
    /\ matches # <<>> =>
           /\ call.returned[1] < Len(matches)
           /\ matches[call.returned[1] + 1].line = call.to

\* the offsets the last k logged calls scrolled to
LastOffsets(k) ==
    {events[i].detail.to : i \in (Len(events) - k + 1)..Len(events)}

\* the walk of the logged calls over these matches
WalksAllMatches(matches) ==
    /\ \A i \in DOMAIN events : ReturnedTheMatch(events[i].detail, matches)
    /\ (matches # <<>> /\ Len(events) >= Cardinality(MatchLines(matches))) =>
           LastOffsets(Cardinality(MatchLines(matches))) = MatchLines(matches)

\* C38: every call of scroll_to_next_match returns the index of a match on
\* the line it scrolled to, or None, leaving the offset, exactly when there
\* is no match; k successive calls, k the number of distinct match lines,
\* scroll to every match line, from any offset.
C38_NextMatchCycles ==
    events # <<>> => WalksAllMatches(FoundMatches(view))

\* two calls from an offset behind the last match of three matches on two
\* lines: the first wraps to match 0, the second goes on to match 2
C38_Witness ==
    /\ Len(events) = 2
    /\ events[1] = Called(Some(0), 3, 0)
    /\ events[2] = Called(Some(2), 0, 2)
    /\ Len(FoundMatches(view)) = 3
    /\ view.scroll_offset = 2

\* the offset is the index of a line of a document of line_count lines
ValidLineIndex(offset, line_count) ==
    line_count >= 1 => 0 <= offset /\ offset <= line_count - 1

\* C39: after any scroll_down, scroll_up, scroll_to_top and
\* scroll_to_bottom calls on a view of a document with at least one line,
\* scroll_offset is at most line_count - 1.
C39_OffsetIsLineIndex ==
    ValidLineIndex(view.scroll_offset, ensure_rendered(view).rendered[1].line_count)

\* the records a jump looks its index up in
RecordsOf(op) ==
    IF op = "scroll_to_heading" THEN view.rendered[1].headings
    ELSE view.rendered[1].search_matches

\* the jump went to the line of the record of its index, or nowhere when
\* there is no such record
JumpedToRecord(jump, records) ==
    IF jump.index < Len(records)
    THEN jump.to = records[jump.index + 1].line
    ELSE jump.to = jump.from

\* C40: scroll_to_heading(i) and scroll_to_match(i) set scroll_offset to
\* the line of record i, and leave it when there is no record i, also for
\* lines above 65,535.
C40_JumpsToRecordLine ==
    events # <<>> =>
        JumpedToRecord(events[1].detail, RecordsOf(events[1].event))

====
